---- MODULE Spec2Model ----
(***************************************************************************)
(* Model of the Ollama / MCP client layer of the repository:               *)
(*   - OllamaClient (healthCheck, getModels, getModel, generateStream,     *)
(*     chatStream, pullModel)                          src/unnamed/part_002 *)
(*   - useOllamaGenerate / useOllamaChat hooks          src/unnamed/part_004 *)
(*   - the MCP envelope route (POST, handleMCPRequest, executeTool)        *)
(*                         src/src/components/cicd/DeploymentStatus.tsx    *)
(*   - the two MCPClient implementations                                   *)
(*                         src/src/lib/mcp/client.ts, src/unnamed/part_001 *)
(*   - formatFileSize      src/src/components/mcp/OllamaModelManager.tsx    *)
(*   - useMCPTools / useMCPExecution / useMCPContext   src/unnamed/part_003 *)
(*   - the health route (GET)                                              *)
(*                         src/src/components/cicd/DeploymentStatus.tsx    *)
(*                                                                         *)
(* Strings that are concatenated are sequences of characters; an optional  *)
(* value (null / a value) is a sequence of length 0 or 1.                  *)
(***************************************************************************)
EXTENDS Integers, Sequences, FiniteSets, TLC

VARIABLES
    \* ---- one streamed call of OllamaClient (generateStream/chatStream/pullModel)
    op,            \* which method is running
    onChunk,       \* the callback handed to the method ("none": pullModel)
    reqModel,      \* request.model
    pc,            \* "fetch" | "reading" | "resolved" | "rejected"
    acquired,      \* response.body.getReader() has returned a reader
    releases,      \* number of reader.releaseLock() calls
    reads,         \* number of reader.read() calls
    fullResponse,  \* let fullResponse
    lastResponse,  \* let lastResponse (null = <<>>)
    delivered,     \* the onChunk invocations, in order: the argument, and
                   \* fullResponse and lastResponse at the time of the call
    seen,          \* lines of the body consumed so far, in arrival order
    examined,      \* number of lines the body of the for-loop has run on
    result,        \* value the promise resolved with (<<>> = none / void)
    err,           \* message of the error the promise rejected with ("" = none)
    \* ---- one instance of useOllamaGenerate / useOllamaChat and its calls
    hook,          \* "generate" | "chat" ("none": no hook mounted)
    hResponse,     \* useOllamaGenerate: response
    hMessages,     \* useOllamaChat: messages
    isGenerating,  \* isGenerating
    hError,        \* error ("" = null)
    abortRef,      \* abortControllerRef.current: 0 = null, c = controller of call c
    abortedCtl,    \* controllers whose abort() was called
    callState,     \* per call: "idle" | "inflight" | "settled"
    callKind,      \* per call: "stream" (generateStream / sendMessageStream) |
                   \* "plain" (generate / sendMessage) | "none" (not started)
    assistantResponse, \* per sendMessageStream call: let assistantResponse
    recv,          \* per call: onChunk invocations made by the client
    applied,       \* per call: onChunk invocations that went on to set state
    cleared,       \* clearResponse / clearChat ran while a streamed call was
                   \* in flight, and no call has been started since
    \* ---- one call of OllamaClient.healthCheck / getModels / getModel
    tCall,         \* the method called and its argument
    tOutcome,      \* what GET /api/tags did
    tReturn,       \* what the call returned or threw
    \* ---- one request through an MCPClient and the envelope route
    mPc,           \* "idle" | "sent" | "answered" | "caught" | "done"
    mCall,         \* the MCPClient method called ("raw": a bare POST)
    mReq,          \* the body POSTed to the route
    mDaemon,       \* what the daemon did with the request the tool made
    mTool,         \* what executeTool did: payload or throw, and the daemon request
    mResp,         \* what fetch settled with: the route's answer (status and
                   \* body), or the error it rejected with (status 0)
    mRet,          \* what the MCPClient method returned or threw
    mFetch,        \* the fetch calls sendRequest made, in order
    mLog,          \* the console.error calls sendRequest made, in order
    \* ---- one call of formatFileSize (OllamaModelManager)
    fPc,           \* "idle" | "done"
    fBytes,        \* the argument, as base-1024 digits, least significant first
    fIndex,        \* const i
    fResult,       \* the returned text: its number (in hundredths) and its unit
    \* ---- one instance of useMCPTools / useMCPExecution / useMCPContext
    mcpHook,       \* which hook is mounted ("none": no hook mounted)
    loading,       \* loading
    mcpError,      \* error (null = <<>>)
    mcpValue,      \* tools / result / context
    mhClient,      \* per call: the mcpClient promise, and what it settled with
    mhReturn,      \* per call: what the hook's function returned or threw
    mhSettled      \* the calls that have settled, in the order they did

streamVars == <<op, onChunk, reqModel, pc, acquired, releases, reads, fullResponse,
                lastResponse, delivered, seen, examined, result, err>>

hookVars == <<hook, hResponse, hMessages, isGenerating, hError, abortRef,
              abortedCtl, callState, callKind, assistantResponse, recv,
              applied, cleared>>

tagsVars == <<tCall, tOutcome, tReturn>>

mcpVars == <<mPc, mCall, mReq, mDaemon, mTool, mResp, mRet, mFetch, mLog>>

fmtVars == <<fPc, fBytes, fIndex, fResult>>

mhVars == <<mcpHook, loading, mcpError, mcpValue, mhClient, mhReturn,
            mhSettled>>

vars == <<streamVars, hookVars, tagsVars, mcpVars, fmtVars, mhVars>>

notStream == <<hookVars, tagsVars, mcpVars, fmtVars, mhVars>>
notHook == <<streamVars, tagsVars, mcpVars, fmtVars, mhVars>>
notTags == <<streamVars, hookVars, mcpVars, fmtVars, mhVars>>
notMcp == <<streamVars, hookVars, tagsVars, fmtVars, mhVars>>
notFmt == <<streamVars, hookVars, tagsVars, mcpVars, mhVars>>
notMh == <<streamVars, hookVars, tagsVars, mcpVars, fmtVars>>

\* ------------------------------------------------------------------ bounds
MaxFrames == 3      \* lines of one response body
ChunkLines == 2     \* lines delivered by one reader.read()
MaxCalls == 2       \* streamed calls started through one hook instance
MaxHookFrames == 2  \* frames the client delivers to one call's onChunk
MaxModels == 2      \* entries of a model listing

\* ------------------------------------------------------------ basic values
Null == <<>>
Some(x) == <<x>>

Frags == {<<>>, <<"a">>, <<"b">>}
RequestModels == {"llama3"}
\* the model name the daemon writes into its frames
DaemonModel == "served"

\* One line of a newline-delimited body, as chunk.split("\n") yields it.
\* kind: "frame" parses as a JSON object, "garbage" makes JSON.parse throw,
\* "blank" is removed by filter(line => line.trim()); "head" and "tail" are
\* the two pieces of a frame whose line a chunk boundary cut in two: neither
\* piece is a JSON text, so JSON.parse throws on both.  A head keeps the
\* fields of the frame it was cut from.
\* has = the frame has a response (generate) / message.content (chat) field.
Line(kind, has, response, done, status) ==
    [kind |-> kind, has |-> has, response |-> response, done |-> done,
     status |-> status]

GarbageLine == Line("garbage", FALSE, <<>>, FALSE, "")
BlankLine == Line("blank", FALSE, <<>>, FALSE, "")

TextFrames ==
    {Line("frame", TRUE, f, d, "") : f \in Frags, d \in BOOLEAN}
        \cup {Line("frame", FALSE, <<>>, d, "") : d \in BOOLEAN}

PullFrames == {Line("frame", FALSE, <<>>, FALSE, s) : s \in {"success", "pulling"}}

LinesOf(o) ==
    (IF o = "pullModel" THEN PullFrames ELSE TextFrames)
        \cup {GarbageLine, BlankLine}

\* const chunk = decoder.decode(value); chunk.split("\n"): the pieces of the
\* frames of o that a chunk can end with, and the piece the next one then
\* starts with.  The frames cut are those that carry the text "a" (or a
\* status).
SplitHeads(o) ==
    {[f EXCEPT !.kind = "head"] :
        f \in {l \in LinesOf(o) : l.kind = "frame" /\ (l.response = <<"a">> \/ l.status # "")}}
TailLine == Line("tail", FALSE, <<>>, FALSE, "")

\* the chunks reader.read() can yield after the lines prev: a chunk starts
\* with the rest of a line exactly when the previous chunk ended inside that
\* line, and only its last line can be left unfinished
ChunksAfter(o, prev, n) ==
    {chunk \in [1..n -> LinesOf(o) \cup SplitHeads(o) \cup {TailLine}] :
        /\ \A i \in 1..n : chunk[i].kind = "head" => i = n
        /\ \A i \in 1..n : chunk[i].kind = "tail" => i = 1
        /\ (chunk[1].kind = "tail") <=>
             (prev # <<>> /\ prev[Len(prev)].kind = "head")}

SeqsUpTo(S, n) == UNION {[1..k -> S] : k \in 0..n}

\* ------------------------------------------------------------ JS values
Undefined == [t |-> "undefined"]
JNull == [t |-> "null"]
Bool(b) == [t |-> "boolean", v |-> b]
Array(items) == [t |-> "array", items |-> items]

Truthy(x) == x.t \notin {"undefined", "null"} /\ (x.t = "boolean" => x.v)
\* x && y, x || y on values already evaluated
JsAnd(x, y) == IF Truthy(x) THEN y ELSE x
JsOr(x, y) == IF Truthy(x) THEN x ELSE y
\* obj.f of a non-null value
Field(obj, f) == IF f \in DOMAIN obj THEN obj[f] ELSE Undefined

Return(v) == [threw |-> FALSE, value |-> v]
Throw(msg) == [threw |-> TRUE, msg |-> msg]

\* --------------------------------------------------- GET /api/tags outcomes
ModelNames == {"llama3", "tinyllama"}
Digests == {"d1", "d2"}
ModelEntries == {[t |-> "object", name |-> n, digest |-> d] :
                    n \in ModelNames, d \in Digests}

\* the decoded body: null, an object without models, with models: null, or
\* with a models array
TagsData ==
    {JNull, [t |-> "object"], [t |-> "object", models |-> JNull]}
        \cup {[t |-> "object", models |-> Array(l)] :
                 l \in SeqsUpTo(ModelEntries, MaxModels)}

TagsOutcomes ==
    {[kind |-> "network"], [kind |-> "badjson"]}
        \cup {[kind |-> "http", status |-> st] : st \in {404, 500}}
        \cup {[kind |-> "json", data |-> d] : d \in TagsData}

\* return data && data.models;                          (part_002:102-103)
HealthValue(data) == JsAnd(data, Field(data, "models"))

\* OllamaClient.healthCheck                              (part_002:86-108)
HealthCheck(o) ==
    IF o.kind = "json" THEN Return(HealthValue(o.data)) ELSE Return(Bool(FALSE))

\* OllamaClient.getModels                                (part_002:113-129)
GetModels(o) ==
    CASE o.kind = "network" -> Throw("network")
      [] o.kind = "http" -> Throw("HTTP error! status")
      [] o.kind = "badjson" -> Throw("SyntaxError")
      [] o.kind = "json" ->
            IF o.data = JNull
            THEN Throw("TypeError")
            ELSE Return(JsOr(Field(o.data, "models"), Array(<<>>)))

\* models.find((model) => model.name === modelName)
FindLast(items, name) ==
    IF \E i \in 1..Len(items) : items[i].name = name
    THEN items[CHOOSE i \in 1..Len(items) :
                  /\ items[i].name = name
                  /\ \A j \in 1..Len(items) : items[j].name = name => j <= i]
    ELSE Undefined

Find(items, name) ==
    IF \E i \in 1..Len(items) : items[i].name = name
    THEN items[CHOOSE i \in 1..Len(items) :
                  /\ items[i].name = name
                  /\ \A j \in 1..(i - 1) : items[j].name # name]
    ELSE Undefined

\* OllamaClient.getModel                                 (part_002:134-142)
GetModel(o, name) ==
    LET r == GetModels(o)
    IN IF r.threw
       THEN Return(JNull)
       ELSE Return(JsOr(Find(r.value.items, name), JNull))

QueryNames == ModelNames \cup {"missing"}

TagsIdle ==
    /\ tCall = [method |-> "none"]
    /\ tOutcome = [kind |-> "none"]
    /\ tReturn = Return(Undefined)

\* ===================== the envelope route (DeploymentStatus.tsx:633-876)
\* JSON objects are records: a key that is undefined is not in the DOMAIN.
Obj == [t |-> "object"]
Has(obj, f) == f \in DOMAIN obj
\* obj with key f set to v
With(obj, f, v) == (f :> v) @@ obj
\* obj with key f copied from src.g when src has it (undefined keys drop out)
Copy(obj, f, src, g) == IF Has(src, g) THEN With(obj, f, src[g]) ELSE obj

\* (x as string) || d  and  (x as number) || d
StrOr(obj, f, d) == IF Has(obj, f) /\ obj[f] # "" THEN obj[f] ELSE d
NumOr(obj, f, d) == IF Has(obj, f) /\ obj[f] # 0 THEN obj[f] ELSE d

\* temperatures are counted in tenths: 7 is 0.7
DefaultTemperature == 7
DefaultNumPredict == 500
DefaultToolModel == "tinyllama"

\* the tools/list registry                              (lines 679-740)
Tool(name, properties, required) ==
    [name |-> name,
     inputSchema |-> [type |-> "object", properties |-> properties,
                      required |-> required]]

ToolRegistry ==
    << Tool("ollama_generate",
            [prompt |-> "string", model |-> "string", temperature |-> "number",
             max_tokens |-> "number"],
            {"prompt"}),
       Tool("ollama_chat",
            [message |-> "string", model |-> "string", temperature |-> "number"],
            {"message"}),
       Tool("ollama_models", <<>>, {}),
       Tool("ollama_health", <<>>, {}) >>

KnownTools == {"ollama_generate", "ollama_chat", "ollama_models", "ollama_health"}

\* ---- what the daemon does with POST /api/generate and POST /api/chat
GenerateData == {JNull, [t |-> "object", response |-> "hello", model |-> "m"]}
ChatData ==
    {JNull,
     [t |-> "object", model |-> "m"],
     [t |-> "object", model |-> "m", message |-> [t |-> "object", content |-> "hello"]]}

PostOutcomes(data) ==
    {[kind |-> "network"], [kind |-> "badjson"], [kind |-> "http", status |-> 500]}
        \cup {[kind |-> "json", data |-> d] : d \in data}

\* fetch + `if (!response.ok) throw` + response.json()   (part_002:225-240)
Decode(o) ==
    CASE o.kind = "network" -> Throw("network")
      [] o.kind = "http" -> Throw("HTTP error! status")
      [] o.kind = "badjson" -> Throw("SyntaxError")
      [] o.kind = "json" -> Return(o.data)

\* OllamaClient.generate                                 (part_002:222-241)
Generate(o) == Decode(o)

\* OllamaClient.chat                                     (part_002:340-369)
Chat(o) ==
    LET r == Decode(o)
    IN IF r.threw THEN r
       ELSE IF r.value = JNull THEN Throw("TypeError")
       ELSE Return(With(Copy(Obj, "model", r.value, "model"),
                        "response",
                        IF Has(r.value, "message")
                        THEN StrOr(r.value.message, "content", "")
                        ELSE ""))

\* the tool handlers' two payload shapes
Failure(msg) == [success |-> FALSE, error |-> msg, timestamp |-> "now"]
Success == [success |-> TRUE, timestamp |-> "now"]

\* what executeTool hands back: the payload or the throw, and the request it
\* made to the daemon (sent.endpoint = "none": it made none)
Ran(outcome, sent) == [threw |-> outcome.threw, outcome |-> outcome, sent |-> sent]
NotSent == [endpoint |-> "none"]

\* temperature: (args.temperature as number) || 0.7      (lines 764, 789)
Temperature(args) == NumOr(args, "temperature", DefaultTemperature)
\* num_predict: (args.max_tokens as number) || 500       (line 765)
NumPredict(args) == NumOr(args, "max_tokens", DefaultNumPredict)
ToolModelIgnoresArgs(args) == DefaultToolModel
\* model: (args.model as string) || "tinyllama"          (lines 761, 786)
ToolModel(args) == StrOr(args, "model", DefaultToolModel)

\* case "ollama_generate"                                (lines 758-781)
ToolGenerate(args, o) ==
    IF args = Undefined
    THEN Ran(Return(Failure("TypeError")), NotSent)
    ELSE LET sent == Copy([endpoint |-> "/api/generate",
                           model |-> ToolModel(args),
                           temperature |-> Temperature(args),
                           num_predict |-> NumPredict(args)],
                          "prompt", args, "prompt")
             r == Generate(o)
         IN IF r.threw THEN Ran(Return(Failure(r.msg)), sent)
            ELSE IF r.value = JNull THEN Ran(Return(Failure("TypeError")), sent)
            ELSE Ran(Return(Copy(Copy(Success, "response", r.value, "response"),
                                 "model", r.value, "model")),
                     sent)

\* case "ollama_chat"                                    (lines 783-806)
ToolChat(args, o) ==
    IF args = Undefined
    THEN Ran(Return(Failure("TypeError")), NotSent)
    ELSE LET sent == Copy([endpoint |-> "/api/chat",
                           model |-> ToolModel(args),
                           temperature |-> Temperature(args)],
                          "message", args, "message")
             r == Chat(o)
         IN IF r.threw THEN Ran(Return(Failure(r.msg)), sent)
            ELSE Ran(Return(Copy(Copy(Success, "response", r.value, "response"),
                                 "model", r.value, "model")),
                     sent)

\* case "ollama_models"                                  (lines 808-828)
ToolModels(o) ==
    LET r == GetModels(o)
        sent == [endpoint |-> "/api/tags"]
    IN IF r.threw THEN Ran(Return(Failure(r.msg)), sent)
       ELSE Ran(Return(With(Success, "models",
                            [i \in 1..Len(r.value.items) |->
                                [name |-> r.value.items[i].name]])),
                sent)

\* case "ollama_health"                                  (lines 830-845)
ToolHealth(o) ==
    LET r == HealthCheck(o)
        sent == [endpoint |-> "/api/tags"]
    IN IF r.threw
       THEN Ran(Return(With(Failure(r.msg), "healthy", Bool(FALSE))), sent)
       ELSE Ran(Return(IF r.value = Undefined THEN Success
                       ELSE With(Success, "healthy", r.value)),
                sent)

\* executeTool                                           (lines 756-850)
ExecuteToolRethrows(params, o) ==
    LET args == Field(params, "arguments")
        r == CASE Has(params, "name") /\ params.name = "ollama_generate" -> ToolGenerate(args, o)
               [] Has(params, "name") /\ params.name = "ollama_chat" -> ToolChat(args, o)
               [] Has(params, "name") /\ params.name = "ollama_models" -> ToolModels(o)
               [] Has(params, "name") /\ params.name = "ollama_health" -> ToolHealth(o)
               [] OTHER -> Ran(Throw("Unknown tool: " \o StrOr(params, "name", "undefined")),
                        NotSent)
    IN IF ~r.threw /\ ~r.outcome.value.success
       THEN Ran(Throw(r.outcome.value.error), r.sent)
       ELSE r

ExecuteTool(params, o) ==
    LET args == Field(params, "arguments")
    IN CASE Has(params, "name") /\ params.name = "ollama_generate" -> ToolGenerate(args, o)
         [] Has(params, "name") /\ params.name = "ollama_chat" -> ToolChat(args, o)
         [] Has(params, "name") /\ params.name = "ollama_models" -> ToolModels(o)
         [] Has(params, "name") /\ params.name = "ollama_health" -> ToolHealth(o)
         [] OTHER -> Ran(Throw("Unknown tool: " \o StrOr(params, "name", "undefined")),
                        NotSent)

\* getContext                                            (lines 852-876)
GetContext(params) ==
    CASE Has(params, "type") /\ params.type = "project" ->
            [name |-> "nextjs-cicd-mcp-practice", version |-> "1.0.0"]
      [] Has(params, "type") /\ params.type = "deployment" ->
            [environments |-> <<"staging", "production">>, currentVersion |-> "1.0.0"]
      [] OTHER ->
            Copy(Copy([data |-> "No specific context available"],
                      "type", params, "type"),
                 "query", params, "query")

HandleMCPRequestLenient(method, params, o) ==
    CASE method = "tools/list" -> Ran(Return([tools |-> ToolRegistry]), NotSent)
      [] method = "tools/call" -> ExecuteTool(params, o)
      [] OTHER -> Ran(Return(GetContext(params)), NotSent)

\* handleMCPRequest                                      (lines 673-754)
HandleMCPRequest(method, params, o) ==
    CASE method = "tools/list" -> Ran(Return([tools |-> ToolRegistry]), NotSent)
      [] method = "tools/call" -> ExecuteTool(params, o)
      [] method = "context/get" -> Ran(Return(GetContext(params)), NotSent)
      [] OTHER -> Ran(Throw("Unknown method: " \o method), NotSent)

Http(status, body) == [status |-> status, body |-> body]

\* the catch block of POST                               (lines 656-670)
ErrorEnvelope(body, msg) ==
    Http(500, [id |-> IF body # JNull THEN StrOr(body, "id", "unknown") ELSE "unknown",
               type |-> "error",
               error |-> [code |-> 500, message |-> msg]])

\* POST: wire.decodes = request.json() succeeds, wire.body = what it yields
Post(wire, o) ==
    IF ~wire.decodes THEN [resp |-> ErrorEnvelope(Obj, "SyntaxError"), tool |-> Ran(Return(Obj), NotSent)]
    ELSE IF wire.body = JNull
    THEN [resp |-> ErrorEnvelope(JNull, "TypeError"), tool |-> Ran(Return(Obj), NotSent)]
    ELSE IF StrOr(wire.body, "method", "") = ""
    THEN [resp |-> Http(400, [error |-> "Method is required"]),
          tool |-> Ran(Return(Obj), NotSent)]
    ELSE LET r == HandleMCPRequest(wire.body.method,
                                   IF Has(wire.body, "params") THEN wire.body.params
                                   ELSE Obj,
                                   o)
         IN [resp |-> IF r.threw
                      THEN ErrorEnvelope(wire.body, r.outcome.msg)
                      ELSE Http(200, With(Copy([type |-> "response"],
                                               "id", wire.body, "id"),
                                          "result", r.outcome.value)),
             tool |-> r]

\* ============ MCPClient (src/src/lib/mcp/client.ts, src/unnamed/part_001)
Clients == {"lib", "legacy"}
Ids == {"id1", "id2"}
\* new MCPClient(baseUrl, apiKey)
BaseUrls == {"http://localhost:3000"}
ApiKeys == {"test-key", "default-key"}

\* const message = {id, type: "request", method, params}; JSON.stringify(message)
Envelope(id, method) ==
    [t |-> "object", id |-> id, type |-> "request", method |-> method]

\* the message of sendRequest(method, params); params is optional (<<>>: not
\* given, dropped by JSON.stringify)
MCPMessage(id, method, params) ==
    IF params = <<>> THEN Envelope(id, method)
    ELSE With(Envelope(id, method), "params", params[1])

Wire(body) == [decodes |-> TRUE, body |-> body]

\* client.ts: `${this.baseUrl}/api/mcp/request`            (line 55)
\* part_001:  `${this.baseUrl}/mcp/request`                (line 52)
Url(client, baseUrl) ==
    IF client = "lib" THEN baseUrl \o "/api/mcp/request"
    ELSE baseUrl \o "/mcp/request"

\* the arguments of fetch(url, {method, headers, body})
FetchCall(client, baseUrl, apiKey, message) ==
    [url |-> Url(client, baseUrl),
     method |-> "POST",
     contentType |-> "application/json",
     authorization |-> "Bearer " \o apiKey,
     body |-> message]

SendRequestIgnoresStatus(resp) == Return(resp.body)
\* if (!response.ok) throw ...; return await response.json()
SendRequest(resp) ==
    IF resp.status \in 200..299
    THEN Return(resp.body)
    ELSE Throw("HTTP error! status: " \o ToString(resp.status))

\* what fetch rejects with when the request does not get through
NetworkErrors == {"Network error", "Failed to fetch"}

\* console.error("MCP request failed:", error)
Logged(msg) == [label |-> "MCP request failed:", error |-> msg]

\* client.ts: return result.result?.tools || [];          (lines 80-87)
GetToolsLib(body) ==
    IF Has(body, "result") /\ Has(body.result, "tools") THEN body.result.tools
    ELSE <<>>

\* part_001: return result.tools || [];                   (lines 76-81)
GetToolsLegacy(body) == IF Has(body, "tools") THEN body.tools ELSE <<>>

GetTools(client, body) ==
    IF client = "lib" THEN GetToolsLib(body) ELSE GetToolsLegacy(body)

\* client.ts: return (result as {result?}).result;  part_001: return result
Unwrap(client, body) ==
    IF client = "lib" THEN Field(body, "result") ELSE body

\* the value an MCPClient method makes of the route's answer
ClientResult(call, resp) ==
    LET r == SendRequest(resp)
    IN IF r.threw \/ call.method \in {"raw", "sendRequest"} THEN r
       ELSE IF call.method = "getTools" THEN Return(GetTools(call.client, r.value))
       ELSE Return(Unwrap(call.client, r.value))

\* ---- arguments a caller may pass to tools/call
ToolArgs ==
    {Obj,
     [t |-> "object", prompt |-> "hi"],
     [t |-> "object", prompt |-> "hi", model |-> "llama3"],
     [t |-> "object", prompt |-> "hi", temperature |-> 0, max_tokens |-> 0],
     [t |-> "object", prompt |-> "hi", temperature |-> 5, max_tokens |-> 100],
     [t |-> "object", message |-> "hi"],
     [t |-> "object", message |-> "hi", model |-> "llama3", temperature |-> 0],
     [t |-> "object", message |-> "hi", temperature |-> 10]}

ToolNames == KnownTools \cup {"bogus"}
ContextTypes == {"project", "deployment", "other"}

\* bodies no MCPClient produces: undecodable, null, no method, an unknown
\* method, tools/call without params or without arguments
RawWires ==
    {[decodes |-> FALSE], Wire(JNull), Wire(Obj), Wire([t |-> "object", id |-> "id1"])}
        \cup {Wire(Envelope(i, m)) : i \in Ids, m \in {"bogus", "tools/call"}}
        \cup {Wire(With(Envelope("id1", "tools/call"), "params",
                        [t |-> "object", name |-> n])) : n \in ToolNames}

\* which daemon endpoint the request will reach, hence what can happen there
OutcomesFor(wire) ==
    IF /\ wire.decodes
       /\ wire.body # JNull
       /\ Has(wire.body, "method")
       /\ wire.body.method = "tools/call"
       /\ Has(wire.body, "params")
       /\ Has(wire.body.params, "name")
       /\ wire.body.params.name \in KnownTools
    THEN CASE wire.body.params.name = "ollama_generate" -> PostOutcomes(GenerateData)
           [] wire.body.params.name = "ollama_chat" -> PostOutcomes(ChatData)
           [] OTHER -> TagsOutcomes
    ELSE {[kind |-> "none"]}

McpIdle ==
    /\ mPc = "idle"
    /\ mCall = [method |-> "none"]
    /\ mReq = [decodes |-> FALSE]
    /\ mDaemon = [kind |-> "none"]
    /\ mTool = Ran(Return(Obj), NotSent)
    /\ mResp = Http(0, Obj)
    /\ mRet = Return(Obj)
    /\ mFetch = <<>>
    /\ mLog = <<>>

\* ============ formatFileSize (src/src/components/mcp/OllamaModelManager.tsx)
\* A byte count is a sequence of base-1024 digits, least significant first,
\* without leading zeros: <<>> is 0, <<0, 1>> is 1024.  The counts are the
\* integers a JS number holds exactly (below 2^53 = 8 * 1024^5).
K == 1024
SafeDigits == 6
SafeTopDigits == {1, 7}
DigitValues == {0, 1, 512, 1023}

ByteCounts ==
    {ds \in UNION {[1..n -> DigitValues \cup SafeTopDigits] : n \in 0..SafeDigits} :
        /\ ds # <<>> => ds[Len(ds)] # 0
        /\ \A j \in 1..Len(ds) :
              IF j = SafeDigits THEN ds[j] \in SafeTopDigits
              ELSE ds[j] \in DigitValues}

\* const sizes = ["Bytes", "KB", "MB", "GB", "TB"]; sizes[i], which is
\* undefined outside the array and reads "undefined" in the concatenation
Sizes == <<"Bytes", "KB", "MB", "GB", "TB">>
SizesAt(i) == IF i + 1 \in DOMAIN Sizes THEN Sizes[i + 1] ELSE "undefined"

\* bytes = 1024^n - 1 with n >= 5: Math.log(bytes) is within an eighth of an
\* ulp of Math.log(1024^n), so the quotient may come out as n exactly
JustBelowPower(ds) == Len(ds) >= 5 /\ \A j \in 1..Len(ds) : ds[j] = K - 1

\* Math.floor(Math.log(bytes) / Math.log(k)): the values it can take
LogFloors(ds) ==
    IF JustBelowPower(ds) THEN {Len(ds) - 1, Len(ds)} ELSE {Len(ds) - 1}

\* ds * m in base 1024
RECURSIVE MulSmall(_, _, _)
MulSmall(ds, m, carry) ==
    IF ds = <<>>
    THEN IF carry = 0 THEN <<>> ELSE <<carry>>
    ELSE LET p == Head(ds) * m + carry
         IN <<p % K>> \o MulSmall(Tail(ds), m, p \div K)

RECURSIVE ValueOf(_)
ValueOf(ds) == IF ds = <<>> THEN 0 ELSE Head(ds) + K * ValueOf(Tail(ds))

\* parseFloat((bytes / Math.pow(k, i)).toFixed(2)), in hundredths: the
\* division by a power of two is exact, toFixed rounds halves up
Hundredths(ds, i) ==
    LET m == MulSmall(ds, 100, 0)
        q == IF i + 1 <= Len(m) THEN ValueOf(SubSeq(m, i + 1, Len(m))) ELSE 0
        up == i >= 1 /\ i <= Len(m) /\ m[i] >= K \div 2
    IN q + (IF up THEN 1 ELSE 0)

\* the text returned: number + " " + unit
Formatted(hundredths, unit) == [hundredths |-> hundredths, unit |-> unit]

\* formatFileSize(bytes) when Math.floor(...) yields i     (lines 48-54)
FormatFileSize(ds, i) ==
    IF ds = <<>> THEN Formatted(0, "Bytes")
    ELSE Formatted(Hundredths(ds, i), SizesAt(i))

FmtIdle ==
    /\ fPc = "idle"
    /\ fBytes = <<>>
    /\ fIndex = 0
    /\ fResult = Formatted(0, "")

\* ------------------------------------------------ the per-line loop bodies
\* The loop state of one call: st.full, st.last, st.out (onChunk arguments),
\* st.ret (pullModel has executed `return`), st.n (iterations of the for-loop).
LoopState(full, last, out, ret, n) ==
    [full |-> full, last |-> last, out |-> out, ret |-> ret, n |-> n]

\* if (data.response) fullResponse += data.response   (part_002:186-188,285-287)
Fold(full, line) ==
    IF line.has /\ line.response # <<>> THEN full \o line.response ELSE full

\* lastResponse = {...data, response: fullResponse}    (part_002:190-195)
\* lastResponse = {model: data.model, ..., response: fullResponse, done: true}
CaptureFrameOnly(last, full, line) ==
    IF line.done
    THEN Some([model |-> DaemonModel, response |-> line.response, done |-> TRUE])
    ELSE last

CaptureFirstOnly(last, full, line) ==
    IF line.done /\ last = Null
    THEN Some([model |-> DaemonModel, response |-> full, done |-> TRUE])
    ELSE last

Capture(last, full, line) ==
    IF line.done
    THEN Some([model |-> DaemonModel, response |-> full, done |-> TRUE])
    ELSE last

\* onChunk(data): generateStream hands the parsed frame over as it is
GenerateChunk(line) ==
    [model |-> DaemonModel, has |-> line.has, response |-> line.response,
     done |-> line.done]

\* onChunk({... response: data.message?.content || "", done: data.done})
ChatChunk(line) ==
    [model |-> DaemonModel, has |-> TRUE, response |-> line.response,
     done |-> line.done]

\* The callbacks a caller can hand over: one that returns normally and one
\* that raises on every frame.
Callbacks == {"returns", "throws"}

CallbackThrows(cb, chunk) == cb = "throws"

\* one onChunk invocation: its argument, the loop's variables at the time of
\* the call, and whether the callback raised
Invocation(chunk, full, last) ==
    [chunk |-> chunk, full |-> full, last |-> last,
     threw |-> CallbackThrows(onChunk, chunk)]

\* the loop state after an onChunk that raised, were the exception to leave
\* the loop instead of being caught by the handler of the line
StreamLineStopsOnThrow(o, st, line) ==
    IF line.kind # "frame" \/ st.ret
    THEN [st EXCEPT !.n = IF line.kind = "blank" \/ st.ret THEN @ ELSE @ + 1]
    ELSE LET full == Fold(st.full, line)
             call == Invocation(IF o = "chatStream" THEN ChatChunk(line)
                                ELSE GenerateChunk(line),
                                full,
                                Capture(st.last, full, line))
         IN LoopState(full, Capture(st.last, full, line), Append(st.out, call),
                      call.threw, st.n + 1)

StreamLineTerminalOnly(o, st, line) ==
    IF line.kind # "frame"
    THEN [st EXCEPT !.n = IF line.kind = "blank" THEN @ ELSE @ + 1]
    ELSE LET full == Fold(st.full, line)
         IN LoopState(full,
                      Capture(st.last, full, line),
                      IF line.done
                      THEN Append(st.out,
                                  Invocation(IF o = "chatStream" THEN ChatChunk(line)
                                             ELSE GenerateChunk(line),
                                             full,
                                             Capture(st.last, full, line)))
                      ELSE st.out,
                      FALSE,
                      st.n + 1)

\* the body of `for (const line of lines)`     (part_002:183-203, 282-321)
StreamLine(o, st, line) ==
    IF line.kind # "frame"
    THEN [st EXCEPT !.n = IF line.kind = "blank" THEN @ ELSE @ + 1]
    ELSE LET full == Fold(st.full, line)
         IN LoopState(full,
                      Capture(st.last, full, line),
                      Append(st.out,
                             Invocation(IF o = "chatStream" THEN ChatChunk(line)
                                        ELSE GenerateChunk(line),
                                        full,
                                        Capture(st.last, full, line))),
                      FALSE,
                      st.n + 1)

\* if (data.status === "success") return;              (part_002:403-412)
PullLineScansOn(st, line) ==
    IF line.kind = "blank"
    THEN st
    ELSE [st EXCEPT !.ret = @ \/ (line.kind = "frame" /\ line.status = "success"),
                    !.n = @ + 1]

PullLine(st, line) ==
    IF st.ret \/ line.kind = "blank"
    THEN st
    ELSE [st EXCEPT !.ret = (line.kind = "frame" /\ line.status = "success"),
                    !.n = @ + 1]

RECURSIVE ProcessLines(_, _, _)
ProcessLines(o, st, lines) ==
    IF lines = <<>>
    THEN st
    ELSE ProcessLines(o,
                      IF o = "pullModel" THEN PullLine(st, Head(lines))
                      ELSE StreamLine(o, st, Head(lines)),
                      Tail(lines))

\* return lastResponse || {model: request.model, ..., response: fullResponse,
\*                         done: true}                  (part_002:209-216)
FallbackDaemonModel(model, full) ==
    [model |-> DaemonModel, response |-> full, done |-> TRUE]

Fallback(model, full) == [model |-> model, response |-> full, done |-> TRUE]

FinalResult(last, model, full) ==
    IF last # Null THEN last ELSE Some(Fallback(model, full))

\* finally { reader.releaseLock(); }          (part_002:205-207,323-325,414-416)
ReleaseLockSkipped(n) == n

ReleaseLock(n) == n + 1

\* How a call settles once reader.read() has reported the end of the body:
\* generateStream / chatStream return the aggregate, pullModel falls off the
\* end of the function (resolves with undefined).
Settled(p, r, e) == [pc |-> p, result |-> r, err |-> e]

StreamEndPullNeedsSuccess(o, last, model, full) ==
    IF o = "pullModel"
    THEN Settled("rejected", Null, "pull ended without success")
    ELSE Settled("resolved", FinalResult(last, model, full), "")

StreamEnd(o, last, model, full) ==
    IF o = "pullModel"
    THEN Settled("resolved", Null, "")
    ELSE Settled("resolved", FinalResult(last, model, full), "")

\* ------------------------------------------------------- streamed call
StreamInit ==
    /\ op \in {"generateStream", "chatStream", "pullModel"}
    /\ onChunk \in IF op = "pullModel" THEN {"none"} ELSE Callbacks
    /\ reqModel \in RequestModels
    /\ pc = "fetch"
    /\ acquired = FALSE
    /\ releases = 0
    /\ reads = 0
    /\ fullResponse = <<>>
    /\ lastResponse = Null
    /\ delivered = <<>>
    /\ seen = <<>>
    /\ examined = 0
    /\ result = Null
    /\ err = ""

Calls == 1..MaxCalls

\* no hook is mounted
HookIdle ==
    /\ hook = "none"
    /\ hResponse = <<>>
    /\ hMessages = <<>>
    /\ isGenerating = FALSE
    /\ hError = ""
    /\ abortRef = 0
    /\ abortedCtl = {}
    /\ callState = [c \in Calls |-> "idle"]
    /\ callKind = [c \in Calls |-> "none"]
    /\ assistantResponse = [c \in Calls |-> <<>>]
    /\ recv = [c \in Calls |-> 0]
    /\ applied = [c \in Calls |-> 0]
    /\ cleared = FALSE

\* no client call is running
StreamIdle ==
    /\ op = "none"
    /\ onChunk = "none"
    /\ reqModel = "llama3"
    /\ pc = "idle"
    /\ acquired = FALSE
    /\ releases = 0
    /\ reads = 0
    /\ fullResponse = <<>>
    /\ lastResponse = Null
    /\ delivered = <<>>
    /\ seen = <<>>
    /\ examined = 0
    /\ result = Null
    /\ err = ""

\* no MCP hook is mounted
MhIdle ==
    /\ mcpHook = "none"
    /\ loading = FALSE
    /\ mcpError = Null
    /\ mcpValue = "null"
    /\ mhClient = [c \in Calls |-> [state |-> "idle", value |-> ""]]
    /\ mhReturn = [c \in Calls |-> [kind |-> "none", value |-> ""]]
    /\ mhSettled = <<>>

Reject(msg) ==
    /\ pc' = "rejected"
    /\ err' = msg

\* await fetch(...) rejects: nothing was acquired
FetchFails ==
    /\ pc = "fetch"
    /\ Reject("network")
    /\ UNCHANGED <<op, onChunk, reqModel, acquired, releases, reads, fullResponse,
                   lastResponse, delivered, seen, examined, result>>
    /\ UNCHANGED notStream

\* if (!response.ok) throw new Error(`HTTP error! status: ...`)
FetchNotOk ==
    /\ pc = "fetch"
    /\ Reject("HTTP error! status")
    /\ UNCHANGED <<op, onChunk, reqModel, acquired, releases, reads, fullResponse,
                   lastResponse, delivered, seen, examined, result>>
    /\ UNCHANGED notStream

\* const reader = response.body?.getReader(); if (!reader) throw ...
FetchNoBody ==
    /\ pc = "fetch"
    /\ Reject("No response body")
    /\ UNCHANGED <<op, onChunk, reqModel, acquired, releases, reads, fullResponse,
                   lastResponse, delivered, seen, examined, result>>
    /\ UNCHANGED notStream

FetchOk ==
    /\ pc = "fetch"
    /\ pc' = "reading"
    /\ acquired' = TRUE
    /\ UNCHANGED <<op, onChunk, reqModel, releases, reads, fullResponse, lastResponse,
                   delivered, seen, examined, result, err>>
    /\ UNCHANGED notStream

\* one reader.read() that yields a chunk, and the for-loop over its lines
ReadChunk ==
    /\ pc = "reading"
    /\ \E n \in 1..ChunkLines :
         /\ Len(seen) + n <= MaxFrames
         /\ \E chunk \in ChunksAfter(op, seen, n) :
              LET st == ProcessLines(op,
                            LoopState(fullResponse, lastResponse, delivered, FALSE,
                                      examined),
                            chunk)
              IN /\ reads' = reads + 1
                 /\ seen' = seen \o chunk
                 /\ fullResponse' = st.full
                 /\ lastResponse' = st.last
                 /\ delivered' = st.out
                 /\ examined' = st.n
                 /\ IF st.ret
                    THEN \* return inside try: finally runs, promise resolves
                         /\ releases' = ReleaseLock(releases)
                         /\ pc' = "resolved"
                    ELSE /\ releases' = releases
                         /\ pc' = "reading"
    /\ UNCHANGED <<op, onChunk, reqModel, acquired, result, err>>
    /\ UNCHANGED notStream

\* reader.read() yields done: break, finally, return
ReadEnd ==
    /\ pc = "reading"
    /\ reads' = reads + 1
    /\ releases' = ReleaseLock(releases)
    /\ LET s == StreamEnd(op, lastResponse, reqModel, fullResponse)
       IN /\ pc' = s.pc
          /\ result' = s.result
          /\ err' = s.err
    /\ UNCHANGED <<op, onChunk, reqModel, acquired, fullResponse, lastResponse,
                   delivered, seen, examined>>
    /\ UNCHANGED notStream

\* reader.read() rejects: finally runs, the error propagates
ReadThrows ==
    /\ pc = "reading"
    /\ reads' = reads + 1
    /\ releases' = ReleaseLock(releases)
    /\ Reject("read failed")
    /\ UNCHANGED <<op, onChunk, reqModel, acquired, fullResponse, lastResponse,
                   delivered, seen, examined, result>>
    /\ UNCHANGED notStream

StreamNext ==
    \/ FetchFails
    \/ FetchNotOk
    \/ FetchNoBody
    \/ FetchOk
    \/ ReadChunk
    \/ ReadEnd
    \/ ReadThrows

Init == StreamInit /\ HookIdle /\ TagsIdle /\ McpIdle /\ FmtIdle /\ MhIdle

Spec == Init /\ [][StreamNext]_vars

\* ============================== useOllamaGenerate / useOllamaChat (part_004)
HookFrags == {<<"a">>, <<"b">>}
\* chunk.response of the frame call c receives after k earlier ones: the
\* fragments alternate, so that calls and positions can be told apart
FrameText(c, k) == IF (c + k) % 2 = 0 THEN <<"a">> ELSE <<"b">>
Contents == {<<"q">>}

Message(role, content) == [role |-> role, content |-> content]

HookInit ==
    /\ hook \in {"generate", "chat"}
    /\ hResponse = <<>>
    /\ hMessages = <<>>
    /\ isGenerating = FALSE
    /\ hError = ""
    /\ abortRef = 0
    /\ abortedCtl = {}
    /\ callState = [c \in Calls |-> "idle"]
    /\ callKind = [c \in Calls |-> "none"]
    /\ assistantResponse = [c \in Calls |-> <<>>]
    /\ recv = [c \in Calls |-> 0]
    /\ applied = [c \in Calls |-> 0]
    /\ cleared = FALSE

\* if (abortControllerRef.current) abortControllerRef.current.abort();
AbortCurrent(ref, ab) == IF ref # 0 THEN ab \cup {ref} ELSE ab

\* generateStream / sendMessageStream up to the first await: the state
\* setters, the abort of the previous controller, the new controller.  The
\* controller's signal is handed neither to the client nor to fetch.
StartStream(c, content) ==
    /\ callState[c] = "idle"
    /\ \A d \in Calls : d < c => callState[d] # "idle"
    /\ isGenerating' = TRUE
    /\ hError' = ""
    /\ IF hook = "generate"
       THEN /\ hResponse' = <<>>
            /\ UNCHANGED hMessages
       ELSE /\ hMessages' = Append(hMessages, Message("user", content))
            /\ UNCHANGED hResponse
    /\ abortedCtl' = AbortCurrent(abortRef, abortedCtl)
    /\ abortRef' = c
    /\ callState' = [callState EXCEPT ![c] = "inflight"]
    /\ callKind' = [callKind EXCEPT ![c] = "stream"]
    /\ cleared' = FALSE
    /\ UNCHANGED <<hook, assistantResponse, recv, applied>>
    /\ UNCHANGED notHook

\* generate / sendMessage up to the await: the state setters only
StartPlain(c, content) ==
    /\ callState[c] = "idle"
    /\ \A d \in Calls : d < c => callState[d] # "idle"
    /\ isGenerating' = TRUE
    /\ hError' = ""
    /\ IF hook = "generate"
       THEN /\ hResponse' = <<>>
            /\ UNCHANGED hMessages
       ELSE /\ hMessages' = Append(hMessages, Message("user", content))
            /\ UNCHANGED hResponse
    /\ callState' = [callState EXCEPT ![c] = "inflight"]
    /\ callKind' = [callKind EXCEPT ![c] = "plain"]
    /\ cleared' = FALSE
    /\ UNCHANGED <<hook, abortRef, abortedCtl, assistantResponse, recv, applied>>
    /\ UNCHANGED notHook

\* if (abortControllerRef.current?.signal.aborted) return;
AbortGuard(ref, ab) == ref # 0 /\ ref \in ab

UpdateLatestAssistant(prev, text) ==
    LET idx == {i \in 1..Len(prev) : prev[i].role = "assistant"}
    IN IF idx # {}
       THEN [prev EXCEPT ![CHOOSE i \in idx : \A j \in idx : j <= i].content = text]
       ELSE Append(prev, Message("assistant", text))

\* setMessages((prev) => ...): update the last turn or append an assistant turn
UpdateLastOrAppend(prev, text) ==
    IF prev # <<>> /\ prev[Len(prev)].role = "assistant"
    THEN [prev EXCEPT ![Len(prev)].content = text]
    ELSE Append(prev, Message("assistant", text))

\* chunk.response as the callbacks append it: a string, or the text
\* "undefined" that `+` makes of a missing field
Appended(chunk) == IF chunk.has THEN chunk.response ELSE <<"undefined">>

SetResponseReplaces(prev, chunk) == Appended(chunk)

\* setResponse((prev) => prev + chunk.response)            (part_004:260-263)
SetResponse(prev, chunk) == prev \o Appended(chunk)

\* response after the callbacks of one generateStream call that is neither
\* superseded nor cleared, started from setResponse("")
RECURSIVE ResponseAfter(_, _)
ResponseAfter(prev, calls) ==
    IF calls = <<>> THEN prev
    ELSE ResponseAfter(SetResponse(prev, Head(calls).chunk), Tail(calls))

\* assistantResponse += chunk.response; setMessages(...)   (part_004:374-395)
RECURSIVE MessagesAfter(_, _, _)
MessagesAfter(prev, text, calls) ==
    IF calls = <<>> THEN prev
    ELSE LET t == text \o Appended(Head(calls).chunk)
         IN MessagesAfter(UpdateLastOrAppend(prev, t), t, Tail(calls))

\* the turns before a sendMessageStream call, and after its
\* setMessages((prev) => [...prev, userMessage])
PriorTurns == <<Message("user", <<"p">>), Message("assistant", <<"r">>)>>
UserTurn == Message("user", <<"q">>)

\* the client invokes the onChunk callback of call c with one frame
OnChunk(c, frag) ==
    /\ callState[c] = "inflight"
    /\ callKind[c] = "stream"
    /\ recv[c] < MaxHookFrames
    /\ recv' = [recv EXCEPT ![c] = @ + 1]
    /\ IF AbortGuard(abortRef, abortedCtl)
       THEN UNCHANGED <<hResponse, hMessages, assistantResponse, applied>>
       ELSE /\ applied' = [applied EXCEPT ![c] = @ + 1]
            /\ IF hook = "generate"
               THEN /\ hResponse' = hResponse \o frag
                    /\ UNCHANGED <<hMessages, assistantResponse>>
               ELSE /\ assistantResponse' =
                           [assistantResponse EXCEPT ![c] = @ \o frag]
                    /\ hMessages' =
                           UpdateLastOrAppend(hMessages, assistantResponse[c] \o frag)
                    /\ UNCHANGED hResponse
    /\ UNCHANGED <<hook, cleared, isGenerating, hError, abortRef, abortedCtl, callState,
                   callKind>>
    /\ UNCHANGED notHook

\* the client's promise resolves: finally { setIsGenerating(false); ref = null }
StreamResolves(c) ==
    /\ callState[c] = "inflight"
    /\ callKind[c] = "stream"
    /\ callState' = [callState EXCEPT ![c] = "settled"]
    /\ isGenerating' = FALSE
    /\ abortRef' = 0
    /\ UNCHANGED <<hook, cleared, hResponse, hMessages, hError, abortedCtl, callKind,
                   assistantResponse, recv, applied>>
    /\ UNCHANGED notHook

\* catch (err): an AbortError returns early, any other error is stored
CatchStream(e, error) == IF e.name = "AbortError" THEN error ELSE e.message

\* the client's promise rejects with e: catch, then finally
StreamRejects(c, e) ==
    /\ callState[c] = "inflight"
    /\ callKind[c] = "stream"
    /\ callState' = [callState EXCEPT ![c] = "settled"]
    /\ hError' = CatchStream(e, hError)
    /\ isGenerating' = FALSE
    /\ abortRef' = 0
    /\ UNCHANGED <<hook, cleared, hResponse, hMessages, abortedCtl, callKind,
                   assistantResponse, recv, applied>>
    /\ UNCHANGED notHook

\* generate / sendMessage: the client's promise resolves with result.response
PlainResolves(c, text) ==
    /\ callState[c] = "inflight"
    /\ callKind[c] = "plain"
    /\ callState' = [callState EXCEPT ![c] = "settled"]
    /\ IF hook = "generate"
       THEN /\ hResponse' = text
            /\ UNCHANGED hMessages
       ELSE /\ hMessages' = Append(hMessages, Message("assistant", text))
            /\ UNCHANGED hResponse
    /\ isGenerating' = FALSE
    /\ UNCHANGED <<hook, cleared, hError, abortRef, abortedCtl, callKind,
                   assistantResponse, recv, applied>>
    /\ UNCHANGED notHook

\* generate / sendMessage: the client's promise rejects with e
PlainRejects(c, e) ==
    /\ callState[c] = "inflight"
    /\ callKind[c] = "plain"
    /\ callState' = [callState EXCEPT ![c] = "settled"]
    /\ hError' = e.message
    /\ isGenerating' = FALSE
    /\ UNCHANGED <<hook, cleared, hResponse, hMessages, abortRef, abortedCtl, callKind,
                   assistantResponse, recv, applied>>
    /\ UNCHANGED notHook

\* clearResponse / clearChat
Clear ==
    /\ IF hook = "generate"
       THEN /\ hResponse' = <<>>
            /\ UNCHANGED hMessages
       ELSE /\ hMessages' = <<>>
            /\ UNCHANGED hResponse
    /\ hError' = ""
    /\ abortedCtl' = AbortCurrent(abortRef, abortedCtl)
    /\ abortRef' = 0
    /\ cleared' = \E c \in Calls : callState[c] = "inflight" /\ callKind[c] = "stream"
    /\ UNCHANGED <<hook, isGenerating, callState, callKind,
                   assistantResponse, recv, applied>>
    /\ UNCHANGED notHook

\* what a client call can reject with: the errors the client throws
\* (name "Error") and an AbortError, which the hooks' catch tells apart
\* although no abort signal is handed to the client
JsError(name, message) == [name |-> name, message |-> message]

ClientErrors ==
    {JsError("Error", "HTTP error! status"),
     JsError("Error", "No response body"),
     JsError("AbortError", "The operation was aborted")}

\* what generate / chat can reject with (they read no body stream), and the
\* text they resolve with
PlainErrors == {JsError("Error", "HTTP error! status")}
PlainTexts == {<<"r">>}

HookNext ==
    \/ \E c \in Calls, content \in Contents : StartStream(c, content)
    \/ \E c \in Calls, content \in Contents : StartPlain(c, content)
    \/ \E c \in Calls : OnChunk(c, FrameText(c, recv[c]))
    \/ \E c \in Calls : StreamResolves(c)
    \/ \E c \in Calls, e \in ClientErrors : StreamRejects(c, e)
    \/ \E c \in Calls, text \in PlainTexts : PlainResolves(c, text)
    \/ \E c \in Calls, e \in PlainErrors : PlainRejects(c, e)
    \/ Clear

HookSpecInit == HookInit /\ StreamIdle /\ TagsIdle /\ McpIdle /\ FmtIdle /\ MhIdle

HookSpec == HookSpecInit /\ [][HookNext]_vars

\* ============================ healthCheck / getModels / getModel calls
DoHealthCheck ==
    /\ \E o \in TagsOutcomes :
         /\ tCall' = [method |-> "healthCheck"]
         /\ tOutcome' = o
         /\ tReturn' = HealthCheck(o)
    /\ UNCHANGED notTags

DoGetModels ==
    /\ \E o \in TagsOutcomes :
         /\ tCall' = [method |-> "getModels"]
         /\ tOutcome' = o
         /\ tReturn' = GetModels(o)
    /\ UNCHANGED notTags

DoGetModel ==
    /\ \E o \in TagsOutcomes, name \in QueryNames :
         /\ tCall' = [method |-> "getModel", name |-> name]
         /\ tOutcome' = o
         /\ tReturn' = GetModel(o, name)
    /\ UNCHANGED notTags

\* the health route's answer when it reports the server down
Unhealthy(msg) == Http(500, [healthy |-> Bool(FALSE), error |-> msg])

\* GET of the health route                   (DeploymentStatus.tsx:593-624)
HealthRoute(o) ==
    CASE o.kind = "network" -> Unhealthy("network")
      [] o.kind = "http" -> Unhealthy("Ollama server error: " \o ToString(o.status))
      [] o.kind = "badjson" -> Unhealthy("SyntaxError")
      [] o.kind = "json" ->
            IF o.data = JNull
            THEN Unhealthy("TypeError")
            ELSE Http(200, [healthy |-> Bool(TRUE),
                            models |-> JsOr(Field(o.data, "models"), Array(<<>>))])

DoHealthRoute ==
    /\ \E o \in TagsOutcomes :
         /\ tCall' = [method |-> "GET health"]
         /\ tOutcome' = o
         /\ tReturn' = Return(HealthRoute(o))
    /\ UNCHANGED notTags

TagsNext ==
    \/ DoHealthCheck
    \/ DoGetModels
    \/ DoGetModel
    \/ DoHealthRoute

TagsSpecInit == TagsIdle /\ StreamIdle /\ HookIdle /\ McpIdle /\ FmtIdle /\ MhIdle

TagsSpec == TagsSpecInit /\ [][TagsNext]_vars

\* =============================== requests through the envelope route
\* MCPClient.sendRequest called directly, up to the await of fetch
ClientSendRequest ==
    /\ mPc = "idle"
    /\ \E c \in Clients, b \in BaseUrls, k \in ApiKeys, i \in Ids,
          m \in {"tools/list", "test-method", ""},
          ps \in {<<>>, <<[t |-> "object", param |-> "value"]>>} :
         /\ mCall' = [method |-> "sendRequest", client |-> c, baseUrl |-> b,
                      apiKey |-> k, rpc |-> m, params |-> ps]
         /\ mReq' = Wire(MCPMessage(i, m, ps))
         /\ mFetch' = Append(mFetch, FetchCall(c, b, k, MCPMessage(i, m, ps)))
    /\ mPc' = "sent"
    /\ UNCHANGED <<mDaemon, mTool, mResp, mRet, mLog>>
    /\ UNCHANGED notMcp

\* MCPClient.getTools up to the await of fetch
ClientGetTools ==
    /\ mPc = "idle"
    /\ \E c \in Clients, b \in BaseUrls, k \in ApiKeys, i \in Ids :
         /\ mCall' = [method |-> "getTools", client |-> c, baseUrl |-> b,
                      apiKey |-> k, rpc |-> "tools/list", params |-> <<>>]
         /\ mReq' = Wire(MCPMessage(i, "tools/list", <<>>))
         /\ mFetch' = Append(mFetch,
                             FetchCall(c, b, k, MCPMessage(i, "tools/list", <<>>)))
    /\ mPc' = "sent"
    /\ UNCHANGED <<mDaemon, mTool, mResp, mRet, mLog>>
    /\ UNCHANGED notMcp

\* MCPClient.executeTool up to the await of fetch
ClientExecuteTool ==
    /\ mPc = "idle"
    /\ \E c \in Clients, b \in BaseUrls, k \in ApiKeys, i \in Ids,
          n \in ToolNames, a \in ToolArgs :
         LET ps == <<[t |-> "object", name |-> n, arguments |-> a]>>
         IN /\ mCall' = [method |-> "executeTool", client |-> c, baseUrl |-> b,
                         apiKey |-> k, rpc |-> "tools/call", params |-> ps]
            /\ mReq' = Wire(MCPMessage(i, "tools/call", ps))
            /\ mFetch' = Append(mFetch,
                                FetchCall(c, b, k, MCPMessage(i, "tools/call", ps)))
    /\ mPc' = "sent"
    /\ UNCHANGED <<mDaemon, mTool, mResp, mRet, mLog>>
    /\ UNCHANGED notMcp

\* MCPClient.getContext up to the await of fetch
ClientGetContext ==
    /\ mPc = "idle"
    /\ \E c \in Clients, b \in BaseUrls, k \in ApiKeys, i \in Ids,
          ty \in ContextTypes, q \in {"", "q"} :
         LET ps == <<IF q = "" THEN [t |-> "object", type |-> ty]
                     ELSE [t |-> "object", type |-> ty, query |-> q]>>
         IN /\ mCall' = [method |-> "getContext", client |-> c, baseUrl |-> b,
                         apiKey |-> k, rpc |-> "context/get", params |-> ps]
            /\ mReq' = Wire(MCPMessage(i, "context/get", ps))
            /\ mFetch' = Append(mFetch,
                                FetchCall(c, b, k, MCPMessage(i, "context/get", ps)))
    /\ mPc' = "sent"
    /\ UNCHANGED <<mDaemon, mTool, mResp, mRet, mLog>>
    /\ UNCHANGED notMcp

\* a POST made without MCPClient
RawPost ==
    /\ mPc = "idle"
    /\ \E w \in RawWires :
         /\ mCall' = [method |-> "raw", client |-> "none"]
         /\ mReq' = w
    /\ mPc' = "sent"
    /\ UNCHANGED <<mDaemon, mTool, mResp, mRet, mFetch, mLog>>
    /\ UNCHANGED notMcp

\* the route's POST handler runs to completion
RouteHandles ==
    /\ mPc = "sent"
    /\ \E o \in OutcomesFor(mReq) :
         LET r == Post(mReq, o)
         IN /\ mDaemon' = o
            /\ mResp' = r.resp
            /\ mTool' = r.tool
    /\ mPc' = "answered"
    /\ UNCHANGED <<mCall, mReq, mRet, mFetch, mLog>>
    /\ UNCHANGED notMcp

\* await fetch(...) rejects: the catch block logs the error
FetchRejects ==
    /\ mPc = "sent"
    /\ mCall.method # "raw"
    /\ \E e \in NetworkErrors :
         /\ mResp' = [status |-> 0, body |-> Obj, rejected |-> e]
         /\ mLog' = Append(mLog, Logged(e))
    /\ mPc' = "caught"
    /\ UNCHANGED <<mCall, mReq, mDaemon, mTool, mRet, mFetch>>
    /\ UNCHANGED notMcp

\* fetch resolves in the client: sendRequest returns the decoded body and
\* the method returns, or sendRequest throws and its catch block logs
ClientReceives ==
    /\ mPc = "answered"
    /\ IF SendRequest(mResp).threw /\ mCall.method # "raw"
       THEN /\ mPc' = "caught"
            /\ mLog' = Append(mLog, Logged(SendRequest(mResp).msg))
            /\ UNCHANGED mRet
       ELSE /\ mPc' = "done"
            /\ mRet' = ClientResult(mCall, mResp)
            /\ UNCHANGED mLog
    /\ UNCHANGED <<mCall, mReq, mDaemon, mTool, mResp, mFetch>>
    /\ UNCHANGED notMcp

\* catch (error) { console.error(...); throw error; }: the caught error
\* leaves sendRequest and the method that called it
ClientRethrows ==
    /\ mPc = "caught"
    /\ mPc' = "done"
    /\ mRet' = Throw(mLog[Len(mLog)].error)
    /\ UNCHANGED <<mCall, mReq, mDaemon, mTool, mResp, mFetch, mLog>>
    /\ UNCHANGED notMcp

McpNext ==
    \/ ClientSendRequest
    \/ ClientGetTools
    \/ ClientExecuteTool
    \/ ClientGetContext
    \/ RawPost
    \/ RouteHandles
    \/ FetchRejects
    \/ ClientReceives
    \/ ClientRethrows

McpSpecInit == McpIdle /\ StreamIdle /\ HookIdle /\ TagsIdle /\ FmtIdle /\ MhIdle

McpSpec == McpSpecInit /\ [][McpNext]_vars

\* ================================================== formatFileSize calls
\* one call: formatFileSize(model.size)
DoFormatFileSize ==
    /\ fPc = "idle"
    /\ \E ds \in ByteCounts :
         /\ fBytes' = ds
         /\ \E i \in (IF ds = <<>> THEN {0} ELSE LogFloors(ds)) :
              /\ fIndex' = i
              /\ fResult' = FormatFileSize(ds, i)
    /\ fPc' = "done"
    /\ UNCHANGED notFmt

FmtNext == DoFormatFileSize

FmtSpecInit == FmtIdle /\ StreamIdle /\ HookIdle /\ TagsIdle /\ McpIdle /\ MhIdle

FmtSpec == FmtSpecInit /\ [][FmtNext]_vars

\* ============ useMCPTools / useMCPExecution / useMCPContext (part_003)
MCPHooks == {"useMCPTools", "useMCPExecution", "useMCPContext"}

\* what the mcpClient method of a call resolves with
HookValues == {"v1", "v2"}

\* what it rejects with: an Error, or a thrown value that is not one
Rejection(isError, message) == [isError |-> isError, message |-> message]
Rejections == {Rejection(TRUE, "HTTP error! status: 500"), Rejection(FALSE, "")}

\* err instanceof Error ? err.message : "<default>"
ErrorMessage(h, e) ==
    IF e.isError THEN e.message
    ELSE CASE h = "useMCPTools" -> "Failed to fetch tools"
           [] h = "useMCPExecution" -> "Tool execution failed"
           [] h = "useMCPContext" -> "Failed to fetch context"

\* useState<MCPTool[]>([]), useState(true) / useState<unknown>(null),
\* useState(false)
MhInit ==
    /\ mcpHook \in MCPHooks
    /\ loading = (mcpHook = "useMCPTools")
    /\ mcpError = Null
    /\ mcpValue = IF mcpHook = "useMCPTools" THEN "[]" ELSE "null"
    /\ mhClient = [c \in Calls |-> [state |-> "idle", value |-> ""]]
    /\ mhReturn = [c \in Calls |-> [kind |-> "none", value |-> ""]]
    /\ mhSettled = <<>>

\* what the hook's async function settles with: executeTool returns the
\* tool result and rethrows, refreshTools and fetchContext return nothing
\* and swallow the error
ReturnedValue(h, v) ==
    [kind |-> "returned", value |-> IF h = "useMCPExecution" THEN v ELSE "undefined"]

Rethrown(h, e) ==
    IF h = "useMCPExecution" THEN [kind |-> "threw", value |-> e.message]
    ELSE [kind |-> "returned", value |-> "undefined"]

\* refreshTools / executeTool / fetchContext up to the await:
\* setLoading(true); setError(null)
MhStart(c) ==
    /\ mcpHook # "none"
    /\ mhClient[c].state = "idle"
    /\ \A d \in Calls : d < c => mhClient[d].state # "idle"
    /\ loading' = TRUE
    /\ mcpError' = Null
    /\ mhClient' = [mhClient EXCEPT ![c].state = "pending"]
    /\ UNCHANGED <<mcpHook, mcpValue, mhReturn, mhSettled>>
    /\ UNCHANGED notMh

\* the await resolves: setTools / setResult / setContext, then finally
\* { setLoading(false) }
MhResolves(c, v) ==
    /\ mhClient[c].state = "pending"
    /\ mhClient' = [mhClient EXCEPT ![c] = [state |-> "resolved", value |-> v]]
    /\ mcpValue' = v
    /\ loading' = FALSE
    /\ mhReturn' = [mhReturn EXCEPT ![c] = ReturnedValue(mcpHook, v)]
    /\ mhSettled' = Append(mhSettled, c)
    /\ UNCHANGED <<mcpHook, mcpError>>
    /\ UNCHANGED notMh

\* the await rejects: catch { setError(...) [throw err] }, then finally
MhRejects(c, e) ==
    /\ mhClient[c].state = "pending"
    /\ mhClient' = [mhClient EXCEPT ![c] = [state |-> "rejected", value |-> ""]]
    /\ mcpError' = Some(ErrorMessage(mcpHook, e))
    /\ loading' = FALSE
    /\ mhReturn' = [mhReturn EXCEPT ![c] = Rethrown(mcpHook, e)]
    /\ mhSettled' = Append(mhSettled, c)
    /\ UNCHANGED <<mcpHook, mcpValue>>
    /\ UNCHANGED notMh

MhNext ==
    \/ \E c \in Calls : MhStart(c)
    \/ \E c \in Calls, v \in HookValues : MhResolves(c, v)
    \/ \E c \in Calls, e \in Rejections : MhRejects(c, e)

MhSpecInit == MhInit /\ StreamIdle /\ HookIdle /\ TagsIdle /\ McpIdle /\ FmtIdle

McpHookSpec == MhSpecInit /\ [][MhNext]_vars

\* ===================================================== streamed-call claims
\* What the daemon sent, read off the consumed lines alone.
ParsedFrames(s) == SelectSeq(s, LAMBDA l : l.kind = "frame")

FragmentOf(l) == IF l.has THEN l.response ELSE <<>>

RECURSIVE ConcatFragments(_)
ConcatFragments(s) ==
    IF s = <<>> THEN <<>> ELSE FragmentOf(Head(s)) \o ConcatFragments(Tail(s))

DoneIndexes(s) == {i \in 1..Len(s) : s[i].done}

TextOp == op \in {"generateStream", "chatStream"}

Returned == TextOp /\ pc = "resolved"

ExactlyOneDone == Cardinality(DoneIndexes(ParsedFrames(seen))) = 1

TheDoneIndex == CHOOSE i \in DoneIndexes(ParsedFrames(seen)) : TRUE

\* C1 (as stated): with exactly one frame marked done, at any position, the
\* returned response text is the concatenation of all fragments f1..fn.
C1_AllFragmentsAnyPosition ==
    (Returned /\ ExactlyOneDone) =>
        /\ result # Null
        /\ result[1].response = ConcatFragments(ParsedFrames(seen))

\* C1 (amended): with exactly one frame marked done, the returned response
\* text is the concatenation, in arrival order, of the fragments of the frames
\* up to and including the done frame (empty fragments included); it is
\* f1+...+fn when the done frame is the last parsed frame.
C1_FragmentsUpToDone ==
    (Returned /\ ExactlyOneDone) =>
        /\ result # Null
        /\ result[1].response =
               ConcatFragments(SubSeq(ParsedFrames(seen), 1, TheDoneIndex))
        /\ (TheDoneIndex = Len(ParsedFrames(seen)) =>
               result[1].response = ConcatFragments(ParsedFrames(seen)))

\* a call that returned after <a>, <empty>, <b, done>
C1_Witness ==
    /\ Returned
    /\ ExactlyOneDone
    /\ Len(ParsedFrames(seen)) = 3
    /\ TheDoneIndex = 3
    /\ \E i \in 1..3 : ParsedFrames(seen)[i].has /\ ParsedFrames(seen)[i].response = <<>>
    /\ result[1].response \in {<<"a", "b">>, <<"b", "a">>}

\* C2: when the stream ends and no parsed frame was marked done, the result
\* is done=true, model = request.model, response = all fragments in order.
C2_FallbackSynthesis ==
    (Returned /\ DoneIndexes(ParsedFrames(seen)) = {}) =>
        result = Some([model |-> reqModel,
                       response |-> ConcatFragments(ParsedFrames(seen)),
                       done |-> TRUE])

C2_Witness ==
    /\ Returned
    /\ DoneIndexes(ParsedFrames(seen)) = {}
    /\ Len(ParsedFrames(seen)) >= 2
    /\ result[1].response = <<"b", "a">>
    /\ result[1].model = reqModel

NoSuccessFrame ==
    \A i \in 1..Len(seen) : ~(seen[i].kind = "frame" /\ seen[i].status = "success")

StreamClosed == acquired /\ pc \in {"resolved", "rejected"} /\ err # "read failed"

\* C8: pullModel on a 2xx response whose stream closes without a success
\* frame (unparseable lines included) resolves and releases its reader once.
C8_PullEndsWithoutSuccess ==
    (op = "pullModel" /\ StreamClosed /\ NoSuccessFrame) =>
        /\ pc = "resolved"
        /\ err = ""
        /\ releases = 1

C8_Witness ==
    /\ op = "pullModel"
    /\ StreamClosed
    /\ NoSuccessFrame
    /\ \E i \in 1..Len(seen) : seen[i].kind = "garbage"
    /\ \E i \in 1..Len(seen) : seen[i].kind = "frame"
    /\ pc = "resolved"

\* C9: a reader that was acquired is released exactly once by the time the
\* call settles, on every exit path, and not before; a reader that was never
\* acquired is never released.
C9_ReleasedExactlyOnce ==
    /\ (pc \in {"resolved", "rejected"} => releases = IF acquired THEN 1 ELSE 0)
    /\ (pc \in {"fetch", "reading"} => releases = 0)

\* the exception path: reader.read() rejected after a chunk was processed
C9_Witness ==
    /\ pc = "rejected"
    /\ err = "read failed"
    /\ acquired
    /\ seen # <<>>
    /\ releases = 1

\* ============================================================ hook claims
InFlight == {c \in Calls : callState[c] = "inflight" /\ callKind[c] = "stream"}

\* a later call has been started while call c is still in flight
Superseded(c) ==
    /\ callState[c] = "inflight"
    /\ callKind[c] = "stream"
    /\ \E d \in Calls : d > c /\ callKind[d] = "stream"

\* C3: once a second streamed call has started, no onChunk callback of the
\* first, still running, call changes the hook's state.
C3_NoStaleCallback ==
    [][\A c \in Calls : Superseded(c) => applied'[c] = applied[c]]_vars

\* C4: per hook instance at most one streamed call is in flight.
C4_AtMostOneInFlight == Cardinality(InFlight) <= 1

\* ================================================ /api/tags client claims
HasModels(o) ==
    /\ o.kind = "json"
    /\ o.data # JNull
    /\ Has(o.data, "models")
    /\ o.data.models # JNull

\* the cases the claim lists: the fetch rejects, the status is non-2xx, the
\* body does not decode, the decoded body has no models field or a null one
ListedFailure(o) ==
    \/ o.kind \in {"network", "http", "badjson"}
    \/ /\ o.kind = "json"
       /\ o.data # JNull
       /\ (~Has(o.data, "models") \/ o.data.models = JNull)

\* C5: healthCheck never raises, returns the boolean false on a network
\* error, a non-2xx status, an undecodable body and an absent or null models
\* field, and returns true only when the call succeeds with models non-null.
C5_HealthCheckBoolean ==
    tCall.method = "healthCheck" =>
        /\ ~tReturn.threw
        /\ (ListedFailure(tOutcome) => tReturn.value = Bool(FALSE))
        /\ (tReturn.value = Bool(TRUE) => HasModels(tOutcome))

\* what GET /api/tags listed, when getModels can return it
GetModelsFails(o) == o.kind # "json" \/ o.data = JNull

Listing(o) == IF HasModels(o) THEN o.data.models.items ELSE <<>>

Matches(l, name) == {i \in 1..Len(l) : l[i].name = name}

Least(S) == CHOOSE i \in S : \A j \in S : i <= j

\* C6: getModel never raises; it returns null when getModels fails, else
\* the first listed entry whose name equals the query, else null.
C6_GetModelTotal ==
    tCall.method = "getModel" =>
        /\ ~tReturn.threw
        /\ tReturn.value =
              IF GetModelsFails(tOutcome) \/ Matches(Listing(tOutcome), tCall.name) = {}
              THEN JNull
              ELSE Listing(tOutcome)[Least(Matches(Listing(tOutcome), tCall.name))]

\* two entries carry the queried name; the first one came back
C6_Witness ==
    /\ tCall.method = "getModel"
    /\ Cardinality(Matches(Listing(tOutcome), tCall.name)) = 2
    /\ Listing(tOutcome)[1] # Listing(tOutcome)[2]
    /\ tReturn.value = Listing(tOutcome)[1]

\* =================================================== envelope route claims
KnownToolCall(wire) ==
    /\ wire.decodes
    /\ wire.body # JNull
    /\ Has(wire.body, "method")
    /\ wire.body.method = "tools/call"
    /\ Has(wire.body, "params")
    /\ Has(wire.body.params, "name")
    /\ wire.body.params.name \in KnownTools

\* the route has answered the request
Answered == mPc \in {"answered", "caught", "done"} /\ mResp.status # 0

\* the Model-Server Client call of the tool raises, or reading the arguments
\* does (generate and chat read them; healthCheck never raises)
ToolCallFails(wire, o) ==
    CASE wire.body.params.name \in {"ollama_generate", "ollama_chat"} ->
            \/ ~Has(wire.body.params, "arguments")
            \/ o.kind # "json"
            \/ o.data = JNull
      [] wire.body.params.name = "ollama_models" -> GetModelsFails(o)
      [] OTHER -> FALSE

\* C7: for the four known tools the handler never throws and the route
\* answers 2xx with type "response"; when the client call (or reading the
\* arguments) fails the payload is {success: false, error, timestamp}.
C7_ToolFailuresAbsorbed ==
    (Answered /\ KnownToolCall(mReq)) =>
        /\ ~mTool.threw
        /\ mResp.status \in 200..299
        /\ mResp.body.type = "response"
        /\ ~Has(mResp.body, "error")
        /\ mResp.body.result.success = ~ToolCallFails(mReq, mDaemon)
        /\ (ToolCallFails(mReq, mDaemon) =>
               /\ Has(mResp.body.result, "error")
               /\ Has(mResp.body.result, "timestamp"))

\* ollama_generate against a daemon that answers non-2xx
C7_Witness ==
    /\ Answered
    /\ KnownToolCall(mReq)
    /\ mReq.body.params.name = "ollama_generate"
    /\ mDaemon.kind = "http"
    /\ mResp.status = 200
    /\ mResp.body.result = Failure("HTTP error! status")

\* C10: getTools, answered by the route, returns the four tool descriptors,
\* each with a non-empty name and an inputSchema.properties mapping, whichever
\* MCPClient implementation made the call.
C10_GetToolsFour ==
    (mPc = "done" /\ Answered /\ mCall.method = "getTools") =>
        /\ ~mRet.threw
        /\ Len(mRet.value) = 4
        /\ {mRet.value[i].name : i \in 1..4} = KnownTools
        /\ \A i \in 1..4 :
              /\ mRet.value[i].name # ""
              /\ Has(mRet.value[i].inputSchema, "properties")

\* a tools/call of ollama_generate carrying a prompt, whose generate call the
\* daemon answered with a JSON object
GenerateSucceeded ==
    /\ Answered
    /\ KnownToolCall(mReq)
    /\ mReq.body.params.name = "ollama_generate"
    /\ Has(mReq.body.params, "arguments")
    /\ Has(mReq.body.params.arguments, "prompt")
    /\ mDaemon.kind = "json"
    /\ mDaemon.data # JNull

\* C11: tools/call ollama_generate with arguments {prompt}, when generate
\* succeeds with {response: r, model: m}, answers the payload {success: true,
\* response: r, model: m, timestamp}, and the request made to the daemon
\* carries the prompt and model = args.model, or "tinyllama" when args.model
\* is absent.
C11_GenerateToolPayload ==
    GenerateSucceeded =>
        LET args == mReq.body.params.arguments
            payload == mResp.body.result
        IN /\ mResp.status = 200
           /\ payload.success = TRUE
           /\ payload.response = mDaemon.data.response
           /\ payload.model = mDaemon.data.model
           /\ Has(payload, "timestamp")
           /\ mTool.sent.endpoint = "/api/generate"
           /\ mTool.sent.prompt = args.prompt
           /\ mTool.sent.model = IF Has(args, "model") THEN args.model
                                 ELSE "tinyllama"

\* both cases of the model: absent (the default is sent) ...
C11_Witness ==
    /\ GenerateSucceeded
    /\ ~Has(mReq.body.params.arguments, "model")
    /\ mTool.sent.model = "tinyllama"
    /\ mResp.body.result.response = "hello"
    /\ mResp.body.result.model = "m"

\* ... and given
C11_WitnessGivenModel ==
    /\ GenerateSucceeded
    /\ Has(mReq.body.params.arguments, "model")
    /\ mTool.sent.model = "llama3"

\* ======================================================== MCPClient claims
\* a method of an MCPClient has been called (sendRequest has begun)
ClientCalled == mCall.method \in {"sendRequest", "getTools", "executeTool", "getContext"}

\* the body is {id: <string>, type: "request", method, params} for the method
\* and params sendRequest was given
BodyIsRequestOf(body, call) ==
    /\ body.id \in Ids
    /\ body.type = "request"
    /\ body.method = call.rpc
    /\ Has(body, "params") = (call.params # <<>>)
    /\ (call.params # <<>> => body.params = call.params[1])

\* C12: sendRequest(method, params) issues exactly one POST to
\* <baseUrl>/mcp/request with the header Authorization: Bearer <apiKey> and
\* the body {id, type: "request", method, params}, and on a 2xx status
\* resolves to the decoded response body unchanged.
C12_SendRequestPost ==
    ClientCalled =>
        /\ Len(mFetch) = 1
        /\ mFetch[1].method = "POST"
        /\ mFetch[1].url = mCall.baseUrl \o "/mcp/request"
        /\ mFetch[1].authorization = "Bearer " \o mCall.apiKey
        /\ BodyIsRequestOf(mFetch[1].body, mCall)
        /\ (/\ mCall.method = "sendRequest"
            /\ mPc = "done"
            /\ Answered
            /\ mResp.status \in 200..299) => mRet = Return(mResp.body)

\* everything C12 states except the path of the URL, which is left to the
\* implementation
C12_SendRequestPostAnyPath ==
    ClientCalled =>
        /\ Len(mFetch) = 1
        /\ mFetch[1].method = "POST"
        /\ mFetch[1].url \in {mCall.baseUrl \o "/mcp/request",
                              mCall.baseUrl \o "/api/mcp/request"}
        /\ mFetch[1].authorization = "Bearer " \o mCall.apiKey
        /\ BodyIsRequestOf(mFetch[1].body, mCall)
        /\ (/\ mCall.method = "sendRequest"
            /\ mPc = "done"
            /\ Answered
            /\ mResp.status \in 200..299) => mRet = Return(mResp.body)

\* fetch resolved with a non-2xx status / fetch rejected
HttpFailure == Answered /\ mResp.status \notin 200..299
FetchFailed == mPc \in {"caught", "done"} /\ Has(mResp, "rejected")

\* the error sendRequest must reject with
ExpectedError ==
    IF FetchFailed THEN mResp.rejected
    ELSE "HTTP error! status: " \o ToString(mResp.status)

\* C13: sendRequest rejects with "HTTP error! status: <n>" whenever the
\* response status is non-2xx and with the error of fetch when fetch itself
\* fails; the failure is logged (once) before it propagates: while the error
\* is caught but not yet rethrown the log already holds it; and no value is
\* returned.
C13_FailuresLoggedThenThrown ==
    (ClientCalled /\ (HttpFailure \/ FetchFailed)) =>
        /\ (mPc = "caught" =>
               /\ mLog = <<Logged(ExpectedError)>>
               /\ mRet = Return(Obj))
        /\ (mPc = "done" =>
               /\ mLog = <<Logged(ExpectedError)>>
               /\ mRet = Throw(ExpectedError)
               /\ ~Has(mRet, "value"))

\* a request answered 500 by the route has been rejected
C13_Witness ==
    /\ ClientCalled
    /\ mPc = "done"
    /\ mResp.status = 500
    /\ mRet = Throw("HTTP error! status: 500")
    /\ mLog = <<Logged("HTTP error! status: 500")>>

\* a request whose fetch failed has been rejected
C13_WitnessNetwork ==
    /\ ClientCalled
    /\ mPc = "done"
    /\ FetchFailed
    /\ mRet = Throw("Failed to fetch")

\* a request answered 400 (empty method) has been rejected
C13_Witness400 ==
    /\ ClientCalled
    /\ mPc = "done"
    /\ mRet = Throw("HTTP error! status: 400")

\* C14: executeTool(name, args) and getContext(type, query) each send one
\* request (tools/call with params {name, arguments: args}, context/get with
\* params {type, query}) and resolve to the result field of the response
\* envelope, not to the envelope, whichever MCPClient implementation is used.
C14_ResolvesToResultField ==
    (ClientCalled /\ mCall.method \in {"executeTool", "getContext"}) =>
        /\ Len(mFetch) = 1
        /\ mFetch[1].body.method =
              (IF mCall.method = "executeTool" THEN "tools/call" ELSE "context/get")
        /\ mFetch[1].body.params = mCall.params[1]
        /\ (mCall.method = "executeTool" =>
               DOMAIN mCall.params[1] = {"t", "name", "arguments"})
        /\ (mCall.method = "getContext" =>
               DOMAIN mCall.params[1] \in {{"t", "type"}, {"t", "type", "query"}})
        /\ (mPc = "done" /\ Answered /\ mResp.status \in 200..299) =>
               /\ mRet = Return(mResp.body.result)
               /\ mRet.value # mResp.body

\* ============================================== envelope route: dispatch
\* the request reached handleMCPRequest (it decoded and names a method)
Dispatched(wire) ==
    /\ wire.decodes
    /\ wire.body # JNull
    /\ Has(wire.body, "method")
    /\ wire.body.method # ""

Methods == {"tools/list", "tools/call", "context/get"}

UnknownMethod(wire) == Dispatched(wire) /\ wire.body.method \notin Methods

\* params.name of a tools/call ("undefined": no params or no name)
CalledTool(wire) ==
    IF Has(wire.body, "params") THEN StrOr(wire.body.params, "name", "undefined")
    ELSE "undefined"

UnknownTool(wire) ==
    /\ Dispatched(wire)
    /\ wire.body.method = "tools/call"
    /\ CalledTool(wire) \notin KnownTools

\* the route answered an envelope of type "error" with error.code 500
ErrorAnswer(msg) ==
    /\ mResp.status = 500
    /\ mResp.body.type = "error"
    /\ mResp.body.error = [code |-> 500, message |-> msg]
    /\ ~Has(mResp.body, "result")

\* C15: a request whose method is none of tools/list, tools/call,
\* context/get fails with an unknown-method error, and a tools/call whose
\* params.name is none of the four tool names fails with an unknown-tool
\* error; in both cases no request is made to the model server and the route
\* answers an envelope of type "error" with error.code 500.
C15_UnknownMethodOrTool ==
    /\ (Answered /\ UnknownMethod(mReq)) =>
          /\ mTool = Ran(Throw("Unknown method: " \o mReq.body.method), NotSent)
          /\ mDaemon.kind = "none"
          /\ ErrorAnswer("Unknown method: " \o mReq.body.method)
    /\ (Answered /\ UnknownTool(mReq)) =>
          /\ mTool = Ran(Throw("Unknown tool: " \o CalledTool(mReq)), NotSent)
          /\ mDaemon.kind = "none"
          /\ ErrorAnswer("Unknown tool: " \o CalledTool(mReq))

\* an unknown method has been answered
C15_Witness ==
    /\ Answered
    /\ UnknownMethod(mReq)
    /\ mReq.body.method = "test-method"
    /\ mResp.body.error.message = "Unknown method: test-method"

\* an unknown tool has been answered
C15_WitnessTool ==
    /\ Answered
    /\ UnknownTool(mReq)
    /\ mResp.body.error.message = "Unknown tool: bogus"

\* a tools/call without params has been answered
C15_WitnessNoName ==
    /\ Answered
    /\ UnknownTool(mReq)
    /\ mResp.body.error.message = "Unknown tool: undefined"

\* the id of the request body and of the response body (<<>>: it has none)
RequestId(wire) ==
    IF wire.decodes /\ wire.body # JNull /\ Has(wire.body, "id")
    THEN <<wire.body.id>> ELSE <<>>

ResponseId(resp) == IF Has(resp.body, "id") THEN <<resp.body.id>> ELSE <<>>

\* C16: for every request body the route receives (a body with no method and
\* an undecodable body included) the response body has the id of the request,
\* a type that is "response" or "error", result exactly when the type is
\* "response" and error exactly when the type is "error".
C16_AnswerIsEnvelope ==
    Answered =>
        /\ ResponseId(mResp) = RequestId(mReq)
        /\ Has(mResp.body, "type")
        /\ mResp.body.type \in {"response", "error"}
        /\ Has(mResp.body, "result") = (mResp.body.type = "response")
        /\ Has(mResp.body, "error") = (mResp.body.type = "error")

\* what does hold: a request that names a method is answered by an envelope,
\* and a successful one carries the id of the request
C16_DispatchedAnswerIsEnvelope ==
    (Answered /\ Dispatched(mReq)) =>
        /\ mResp.body.type \in {"response", "error"}
        /\ Has(mResp.body, "result") = (mResp.body.type = "response")
        /\ Has(mResp.body, "error") = (mResp.body.type = "error")
        /\ (mResp.body.type = "response" => ResponseId(mResp) = RequestId(mReq))
        /\ (mResp.body.type = "error" =>
               ResponseId(mResp) = IF RequestId(mReq) = <<>> THEN <<"unknown">>
                                   ELSE RequestId(mReq))

\* ============================================================ hook claims
\* the errors C17 is about
NoBodyError == JsError("Error", "No response body")
AbortError == JsError("AbortError", "The operation was aborted")

\* C17: when a streamed call of generateStream / sendMessageStream ends
\* because it was cancelled or because the client raised "No response body",
\* the hook's error stays null and isGenerating is reset to false.
C17_EarlyExitIsNoError ==
    [][\A c \in Calls :
          (StreamRejects(c, AbortError) \/ StreamRejects(c, NoBodyError)) =>
              /\ (hError = "" => hError' = "")
              /\ isGenerating' = FALSE]_vars

\* what does hold: an abort error leaves the error as it was, every settling
\* streamed call resets isGenerating, and "No response body" becomes the error
C17_AbortOnlyIsNoError ==
    [][\A c \in Calls :
          /\ \A e \in ClientErrors : StreamRejects(c, e) => isGenerating' = FALSE
          /\ StreamResolves(c) => isGenerating' = FALSE
          /\ StreamRejects(c, AbortError) => hError' = hError
          /\ StreamRejects(c, NoBodyError) => hError' = "No response body"]_vars

\* ========================================================= onChunk claims
\* the fragment an onChunk argument carries ("" when it has none)
ChunkText(chunk) == IF chunk.has THEN chunk.response ELSE <<>>

\* C18: in generateStream and chatStream onChunk is invoked exactly once for
\* every successfully parsed frame, terminal or not, in arrival order, before
\* the next frame is processed (fullResponse at the i-th call holds the
\* fragments of the first i frames only) and before the call resolves (the
\* invocations are complete in every state, the resolved one included); the
\* response of the argument is that frame's own fragment ("" when it has no
\* content), never the accumulated text.
C18_OnChunkPerFrame ==
    TextOp =>
        LET frames == ParsedFrames(seen)
        IN /\ Len(delivered) = Len(frames)
           /\ \A i \in 1..Len(frames) :
                 /\ ChunkText(delivered[i].chunk) = FragmentOf(frames[i])
                 /\ delivered[i].chunk.done = frames[i].done
                 /\ delivered[i].full = ConcatFragments(SubSeq(frames, 1, i))
                 /\ (op = "chatStream" =>
                        /\ delivered[i].chunk.has
                        /\ delivered[i].chunk.response = FragmentOf(frames[i]))

\* a resolved chatStream call of three frames: a non-terminal frame with
\* text, a frame without content, a terminal frame with text, so that the
\* last fragment differs from the accumulated text
C18_Witness ==
    /\ op = "chatStream"
    /\ pc = "resolved"
    /\ Len(delivered) = 3
    /\ ~delivered[1].chunk.done
    /\ delivered[1].chunk.response # <<>>
    /\ delivered[2].chunk.response = <<>>
    /\ delivered[3].chunk.done
    /\ delivered[3].chunk.response # <<>>
    /\ delivered[3].chunk.response # delivered[3].full

\* the same for generateStream, with an unparsable line between the frames
C18_WitnessGenerate ==
    /\ op = "generateStream"
    /\ pc = "resolved"
    /\ Len(delivered) = 2
    /\ Len(seen) = 3
    /\ seen[2].kind = "garbage"
    /\ ~delivered[1].chunk.done
    /\ delivered[2].chunk.done

\* ======================================================= turn sequence
\* the turn sequence after the step extends the one before it: no turn is
\* removed or moved, no role changes, and only the last turn's content may
\* differ
GrowsAtEnd(before, after) ==
    /\ Len(after) >= Len(before)
    /\ \A i \in 1..Len(before) : after[i].role = before[i].role
    /\ \A i \in 1..(Len(before) - 1) : after[i] = before[i]

\* C19: in useOllamaChat every step other than clearChat (the start of
\* sendMessage / sendMessageStream, their completions and failures, the frame
\* callbacks) leaves the existing turns in place: none is removed, reordered
\* or deduplicated, no role changes, and the content of a turn that is not
\* the last one does not change.
C19_TurnsOnlyGrowAtEnd ==
    [][hook = "chat" => (Clear \/ GrowsAtEnd(hMessages, hMessages'))]_vars

\* two overlapping sendMessageStream calls have both written turns: user,
\* assistant (call 1), user, assistant, and call 2 has updated the last turn
C19_Witness ==
    /\ hook = "chat"
    /\ callKind = [c \in Calls |-> IF c <= 2 THEN "stream" ELSE callKind[c]]
    /\ applied[1] >= 1
    /\ applied[2] >= 2
    /\ Len(hMessages) = 4
    /\ hMessages[2].role = "assistant"
    /\ hMessages[3].role = "user"
    /\ hMessages[4].role = "assistant"
    /\ Len(hMessages[4].content) >= 2

\* a sendMessage call has appended its answer after a streamed turn
C19_WitnessPlain ==
    /\ hook = "chat"
    /\ callKind[1] = "stream"
    /\ callKind[2] = "plain"
    /\ callState[2] = "settled"
    /\ hError = ""
    /\ Len(hMessages) >= 4
    /\ hMessages[Len(hMessages)].role = "assistant"
    /\ hMessages[Len(hMessages) - 1].role = "assistant"

\* ===================================================== formatFileSize claims
\* bytes / 1024^i >= 1
ScaledAtLeastOne(ds, i) == Len(ds) >= i + 1

\* the largest i in 0..4 with bytes / 1024^i >= 1
ClaimedIndex(ds) ==
    CHOOSE i \in 0..4 :
        /\ ScaledAtLeastOne(ds, i)
        /\ \A j \in 0..4 : ScaledAtLeastOne(ds, j) => j <= i

\* C20: formatFileSize(bytes), for every integer bytes >= 0, selects a unit
\* from {Bytes, KB, MB, GB, TB}: for bytes > 0 the unit index is the largest
\* i in 0..4 with bytes / 1024^i >= 1, for bytes = 0 the result is "0 Bytes",
\* and the unit label is never undefined.
C20_UnitFromTable ==
    fPc = "done" =>
        /\ fResult.unit \in {Sizes[n] : n \in DOMAIN Sizes}
        /\ fResult.unit # "undefined"
        /\ IF fBytes = <<>>
           THEN fResult = Formatted(0, "Bytes")
           ELSE /\ fIndex = ClaimedIndex(fBytes)
                /\ fResult.unit = Sizes[ClaimedIndex(fBytes) + 1]

\* what does hold: below 1024^5 - 1 the unit is the claimed one
C20_UnitBelowPiB ==
    (fPc = "done" /\ Len(fBytes) <= 5 /\ ~JustBelowPower(fBytes)) =>
        /\ fResult.unit # "undefined"
        /\ IF fBytes = <<>>
           THEN fResult = Formatted(0, "Bytes")
           ELSE /\ fIndex = ClaimedIndex(fBytes)
                /\ fResult.unit = Sizes[ClaimedIndex(fBytes) + 1]
                /\ fResult.hundredths >= 100

\* 1024^5 bytes read "1 undefined"
C20_OnePiB ==
    /\ fPc = "done"
    /\ fBytes = <<0, 0, 0, 0, 0, 1>>
    /\ fResult = Formatted(100, "undefined")

\* 1536 bytes read "1.5 KB"
C20_OneAndAHalfKB ==
    /\ fPc = "done"
    /\ fBytes = <<512, 1>>
    /\ fResult = Formatted(150, "KB")

\* ===================================================== terminal capture
\* the capture the loop holds after the first n parsed frames: of the last
\* frame marked done among them, with the fragments up to and including it
CaptureAfter(frames, n) ==
    LET dones == {i \in 1..n : frames[i].done}
    IN IF dones = {} THEN Null
       ELSE LET d == CHOOSE i \in dones : \A j \in dones : j <= i
            IN Some([model |-> DaemonModel,
                     response |-> ConcatFragments(SubSeq(frames, 1, d)),
                     done |-> TRUE])

\* C21: in generateStream and chatStream, each time a frame marked done is
\* parsed the terminal result is (re)captured with response = the fragments
\* of all frames up to and including that frame (seen at every frame through
\* lastResponse at the time of its onChunk call, and in every state of the
\* loop); with several frames marked done the call returns the capture of
\* the last of them.
C21_LastDoneCaptureReturned ==
    TextOp =>
        LET frames == ParsedFrames(seen)
        IN /\ lastResponse = CaptureAfter(frames, Len(frames))
           /\ \A i \in 1..Len(delivered) :
                 delivered[i].last = CaptureAfter(frames, i)
           /\ (Returned /\ DoneIndexes(frames) # {}) =>
                 result = CaptureAfter(frames, Len(frames))

\* a call that returned after two frames marked done with a fragment in
\* between: the second capture, not the first, is returned
C21_Witness ==
    /\ Returned
    /\ Cardinality(DoneIndexes(ParsedFrames(seen))) >= 2
    /\ ParsedFrames(seen)[1].done
    /\ delivered[1].last # Null
    /\ result # delivered[1].last
    /\ result = delivered[Len(delivered)].last
    /\ Len(result[1].response) >= 2

\* ============================================== pullModel's early return
SuccessIndexes(s) ==
    {i \in 1..Len(s) : s[i].kind = "frame" /\ s[i].status = "success"}

FirstSuccess(s) == CHOOSE i \in SuccessIndexes(s) : \A j \in SuccessIndexes(s) : i <= j

\* the lines among the first n of s that survive filter(line => line.trim())
NonBlank(s, n) == Cardinality({i \in 1..n : s[i].kind # "blank"})

\* C22: pullModel resolves as soon as the first frame with status "success"
\* is parsed: the read whose chunk holds that frame is the step that
\* resolves the call, the for-loop has run on no line after that frame, the
\* reader has been released by then, and nothing happens afterwards (no
\* further reader.read()).
C22_PullResolvesOnFirstSuccess ==
    [][op = "pullModel" =>
         /\ SuccessIndexes(seen) = {}
         /\ SuccessIndexes(seen') # {} =>
               /\ pc' = "resolved"
               /\ releases' = 1
               /\ reads' = reads + 1
               /\ examined' = NonBlank(seen', FirstSuccess(seen'))]_vars

\* a pull that resolved on a "success" frame which was followed, in the same
\* chunk, by another frame
C22_Witness ==
    /\ op = "pullModel"
    /\ pc = "resolved"
    /\ SuccessIndexes(seen) # {}
    /\ FirstSuccess(seen) < Len(seen)
    /\ seen[Len(seen)].kind = "frame"
    /\ examined < NonBlank(seen, Len(seen))
    /\ releases = 1

\* ================================================= frames and read chunks
\* the frames that have arrived in full, in order: those that arrived whole
\* and those whose line was cut by a chunk boundary and whose second piece
\* has arrived too
SentFrames(s) ==
    LET Sent(i) == \/ s[i].kind = "frame"
                   \/ s[i].kind = "head" /\ i < Len(s)
        F[i \in 0..Len(s)] ==
            IF i = 0 THEN <<>>
            ELSE IF Sent(i) THEN Append(F[i - 1], [s[i] EXCEPT !.kind = "frame"])
            ELSE F[i - 1]
    IN F[Len(s)]

\* the loop run on the frames alone, each on a line of its own
Unsplit(o, s) == ProcessLines(o, LoopState(<<>>, Null, <<>>, FALSE, 0), SentFrames(s))

\* C23: the aggregate text, the captured terminal frame and the sequence of
\* onChunk invocations of generateStream / chatStream depend only on the
\* frames the daemon sent, not on how the bytes are divided into read
\* chunks: a frame whose line is split across two consecutive chunks is
\* still processed exactly once.
C23_ChunkingIndependent ==
    TextOp =>
        /\ fullResponse = Unsplit(op, seen).full
        /\ lastResponse = Unsplit(op, seen).last
        /\ delivered = Unsplit(op, seen).out

\* ======================================================= busy flags
\* calls started through the mounted hook that have not settled
MhPending == {c \in Calls : mhClient[c].state = "pending"}
MhStarted == {c \in Calls : mhClient[c].state # "idle"}
OllamaPending == {c \in Calls : callState[c] = "inflight"}
OllamaStarted == {c \in Calls : callState[c] # "idle"}

\* C24: for every state-exposure hook, after any interleaving of calls,
\* overlapping ones included, the busy flag (loading / isGenerating) is true
\* if and only if at least one call started through the hook instance has
\* not yet settled.
C24_BusyIffCallInFlight ==
    /\ MhStarted # {} => (loading <=> MhPending # {})
    /\ OllamaStarted # {} => (isGenerating <=> OllamaPending # {})

\* ================================================ settled state of a hook
LastSettled == mhSettled[Len(mhSettled)]

\* the hook's state is the one the most recently settled call left
SettledByLast ==
    /\ (mcpError # Null) <=> (mhClient[LastSettled].state = "rejected")
    /\ mhClient[LastSettled].state = "resolved" =>
          /\ mcpValue = mhClient[LastSettled].value
          /\ mcpError = Null

\* C25: in useMCPExecution (likewise useMCPTools, useMCPContext), whenever no
\* call is in flight the hook is in the settled state of the most recently
\* settled call: error is non-null iff that call failed, and after a
\* successful call the value is that call's and error is null, for any
\* interleaving of overlapping calls; a failed call leaves the value
\* unchanged and, in useMCPExecution, rethrows to the caller.
C25_SettledStateFollowsLastCall ==
    [][/\ (MhPending' = {} /\ mhSettled' # <<>>) => SettledByLast'
       /\ \A c \in Calls :
             (mhClient[c].state = "pending" /\ mhClient'[c].state = "rejected") =>
                /\ mcpValue' = mcpValue
                /\ mcpHook = "useMCPExecution" => mhReturn'[c].kind = "threw"]_vars

\* ======================================== sampling options of the tools
\* the route ran ollama_generate or ollama_chat and the tool made its
\* request to the model client
SamplingToolRan ==
    /\ Answered
    /\ KnownToolCall(mReq)
    /\ mReq.body.params.name \in {"ollama_generate", "ollama_chat"}
    /\ Has(mReq.body.params, "arguments")
    /\ mTool.sent.endpoint \in {"/api/generate", "/api/chat"}

\* C26: for tools/call ollama_generate and ollama_chat the temperature
\* forwarded to the model client equals args.temperature for every supplied
\* value between 0.0 and 1.0, 0 included, and is the default 0.7 only when no
\* temperature is supplied; likewise num_predict equals args.max_tokens
\* whenever supplied, 0 included, and is 500 only when absent.
C26_SamplingOptionsForwarded ==
    SamplingToolRan =>
        LET args == mReq.body.params.arguments
        IN /\ mTool.sent.temperature =
                 IF Has(args, "temperature") THEN args.temperature
                 ELSE DefaultTemperature
           /\ mTool.sent.endpoint = "/api/generate" =>
                 mTool.sent.num_predict =
                     IF Has(args, "max_tokens") THEN args.max_tokens
                     ELSE DefaultNumPredict

\* ==================================================== a callback that raises
ThrowIndexes == {i \in 1..Len(delivered) : delivered[i].threw}

\* C27: in generateStream and chatStream an exception raised by the onChunk
\* callback for a frame does not end the call: the frame's fragment and, if
\* it is marked done, its terminal capture were folded in before the call,
\* later frames are still processed and delivered, and when the stream
\* closes the reader is released and the call resolves with the aggregate.
C27_CallbackExceptionCaught ==
    (TextOp /\ ThrowIndexes # {}) =>
        LET frames == ParsedFrames(seen)
        IN /\ \A i \in ThrowIndexes :
                 /\ delivered[i].full = ConcatFragments(SubSeq(frames, 1, i))
                 /\ delivered[i].last = CaptureAfter(frames, i)
           /\ Len(delivered) = Len(frames)
           /\ fullResponse = ConcatFragments(frames)
           /\ lastResponse = CaptureAfter(frames, Len(frames))
           /\ pc \in {"reading", "resolved", "rejected"}
           /\ pc = "rejected" => err = "read failed"
           /\ pc = "resolved" =>
                 /\ releases = 1
                 /\ result = FinalResult(lastResponse, reqModel, fullResponse)
                 /\ result[1].response =
                       IF DoneIndexes(frames) = {} THEN ConcatFragments(frames)
                       ELSE CaptureAfter(frames, Len(frames))[1].response

\* the callback raised on the first frame, marked done, and a later frame
\* was still folded in and delivered; the call resolved with the capture of
\* the first
C27_Witness ==
    /\ Returned
    /\ Len(delivered) >= 2
    /\ delivered[1].threw
    /\ delivered[1].chunk.done
    /\ ~delivered[2].chunk.done
    /\ delivered[2].full # delivered[1].full
    /\ result = delivered[1].last
    /\ result[1].response # <<>>
    /\ releases = 1

\* the callback raised on frames none of which is marked done: the call
\* resolved with the synthesized aggregate of all their fragments
C27_WitnessFallback ==
    /\ Returned
    /\ Len(delivered) >= 2
    /\ ThrowIndexes = 1..Len(delivered)
    /\ DoneIndexes(ParsedFrames(seen)) = {}
    /\ Len(result[1].response) >= 2
    /\ result[1].model = reqModel

\* ===================================================== after a clear
\* C28: in useOllamaChat, after clearChat is invoked while a streamed call is
\* in flight, messages stays empty until the next sendMessage /
\* sendMessageStream: no later frame callback of the in-flight call appends
\* or modifies a turn; likewise in useOllamaGenerate response stays "" after
\* clearResponse until the next generate call.
C28_StaysEmptyAfterClear ==
    cleared =>
        /\ hook = "chat" => hMessages = <<>>
        /\ hook = "generate" => hResponse = <<>>

\* ============================================ hook text and client aggregate
\* a single streamed call through a hook, neither superseded nor cleared,
\* has resolved; the hook's callback returns normally
HookCallSettled(o) == Returned /\ op = o /\ onChunk = "returns"

HookResponse == ResponseAfter(<<>>, delivered)
HookMessages == MessagesAfter(Append(PriorTurns, UserTurn), <<>>, delivered)

\* the hook shows exactly the response text of the aggregate the client
\* returned
HookShowsAggregate ==
    /\ HookCallSettled("generateStream") => HookResponse = result[1].response
    /\ (HookCallSettled("chatStream") /\ ConcatFragments(ParsedFrames(seen)) # <<>>) =>
          HookMessages =
              PriorTurns \o <<UserTurn, Message("assistant", result[1].response)>>

\* every frame carries its text field, and no text arrives after the last
\* frame marked done
TextEndsAtDone ==
    LET frames == ParsedFrames(seen)
    IN /\ op = "generateStream" => \A i \in 1..Len(frames) : frames[i].has
       /\ \A d \in DoneIndexes(frames) :
             ConcatFragments(SubSeq(frames, 1, d)) = ConcatFragments(frames)

C29_WitnessGenerate ==
    /\ HookCallSettled("generateStream")
    /\ TextEndsAtDone
    /\ DoneIndexes(ParsedFrames(seen)) = {}
    /\ Len(HookResponse) >= 2

\* ================================================== three health reports
\* C30: for every outcome of GET /api/tags (network failure, non-2xx, 2xx
\* with models present, 2xx with models absent or null) the health route's
\* healthy is what OllamaClient.healthCheck returns for the same outcome
\* (compared as conditions: both hold or neither does), and the tools/call
\* ollama_health payload reports that value with success = true.
C30_HealthReportsAgree ==
    tCall.method = "GET health" =>
        LET payload == ToolHealth(tOutcome).outcome.value
        IN /\ Truthy(tReturn.value.body.healthy) = Truthy(HealthCheck(tOutcome).value)
           /\ payload.success = TRUE
           /\ Truthy(Field(payload, "healthy")) = Truthy(HealthCheck(tOutcome).value)

====
